---- MODULE Spec2Model ----
(***************************************************************************)
(* Authentication and session lifecycle of the wowziriai backend.          *)
(*                                                                         *)
(* Two auth routers exist in the repository: the one-time-code router      *)
(* (src/routes/auth.js) and the verification-link router                   *)
(* (src/unnamed/part_009).  Exactly one of them is mounted by the server;  *)
(* `variant' says which.  Every HTTP handler is one action.  The clock is  *)
(* in milliseconds since process start, JWT times are in whole seconds.    *)
(***************************************************************************)
EXTENDS Integers, Sequences, FiniteSets, TLC

\* ------------------------------------------------------------------ bounds
MaxUsers == 1
MaxTokens == 5
MaxTicks == 2
MaxCalls == 3
MaxText == 200
MaxBytes == 4
MaxChunks == 3

VARIABLES
  variant,     \* "otp" | "link": which auth router is mounted
  env,         \* process.env as read at module load
  now,         \* Date.now(), ms
  ticks,       \* number of clock advances so far (bounded by MaxTicks)
  users,       \* the User collection: sequence of records, _id = index
  issued,      \* every JWT the server has handed out (what clients can present)
  req,         \* the request handled last
  pre,         \* what that request's handler found when it started (clock, user record)
  resp,        \* the response sent last
  outbox,      \* the e-mails the last handler delivered
  consumed,    \* per user: the code accepted by verify-otp, until a new challenge is issued
  superseded,  \* per user: the codes overwritten by a successful resend
  usedLinks,   \* link tokens verify-email has accepted
  latestLink,  \* per user: the link token issued last
  olderLinks,  \* link tokens issued before a later link of the same user
  spent,       \* refresh tokens a logout was sent with, and those /refresh has exchanged
  calls,       \* per in-flight request slot: where its handler stands between awaits, and its locals
  saved,       \* per user: the challenge written by the latest user.save() of setOtp, and by which slot
  hf,          \* the passthrough handler (part_007) and the stream transformHFStream returns
  sse,         \* the stream streamTextAsSSE returns
  chat,        \* the /api/chat route (routes/chatStream.js) and its response
  mw,          \* the access guard (middleware/auth.js) run last: its request and what it did
  page,        \* the interests page (part_000): its state and the requests of its submit
  chats        \* the Chat collection and the request of the chats router handled last

vars == <<variant, env, now, ticks, users, issued, req, pre, resp, outbox,
          consumed, superseded, usedLinks, latestLink, olderLinks, spent, calls, saved,
          hf, sse, chat, mw, page, chats>>

\* the state of the handlers that are followed await by await
stepVars == <<calls, saved, hf, sse, chat, mw, page, chats>>
\* the auth routers' state
authVars == <<variant, env, now, ticks, users, issued, req, pre, resp, outbox,
              consumed, superseded, usedLinks, latestLink, olderLinks, spent, calls, saved,
              mw, page, chats>>

\* -------------------------------------------------------------- input sets
Emails == {"a@x.io", "b@x.io"}
\* what body("email").isEmail() rejects
BadEmail == "not-an-email"
IsEmail(e) == e # BadEmail
Phones == {"+100", "+200"}
Codes == {"111111", "222222"}

\* A password is described by what the policy regex looks at.
GoodPassword == [id |-> "Passw0rd!", len |-> 9, digit |-> TRUE, symbol |-> TRUE]
OtherPassword == [id |-> "Hunter#22", len |-> 9, digit |-> TRUE, symbol |-> TRUE]
NoDigitPassword == [id |-> "Password!", len |-> 9, digit |-> FALSE, symbol |-> TRUE]
NoSymbolPassword == [id |-> "Passw0rdd", len |-> 9, digit |-> TRUE, symbol |-> FALSE]
ShortPassword == [id |-> "Pw0!", len |-> 4, digit |-> TRUE, symbol |-> TRUE]
Passwords == {GoodPassword, NoDigitPassword, NoSymbolPassword, ShortPassword}

\* faulty variant of PasswordOk: no symbol is asked for
PasswordOkWithoutSymbol(pw) == pw.digit /\ pw.len >= 8

\* passwordRegex: a digit, a symbol, at least 8 characters
PasswordOk(pw) == pw.digit /\ pw.symbol /\ pw.len >= 8

\* ------------------------------------------------------------ environments
\* process.env: NODE_ENV and the three JWT secrets ("" = variable not set).
Envs ==
  { [isProd |-> TRUE,  access |-> "ka", refresh |-> "kr", emailVerify |-> "ke"],
    [isProd |-> FALSE, access |-> "",   refresh |-> "",   emailVerify |-> ""],
    [isProd |-> TRUE,  access |-> "k",  refresh |-> "k",  emailVerify |-> "k"],
    [isProd |-> TRUE,  access |-> "",   refresh |-> "",   emailVerify |-> ""] }

DevFallback(value, dev) == IF value # "" THEN value ELSE IF ~env.isProd THEN dev ELSE ""

\* The router's secrets: the OTP router reads the variables as they are, the
\* link router falls back to development secrets outside production.
RouterAccessSecret ==
  IF variant = "otp" THEN env.access ELSE DevFallback(env.access, "dev_access_secret")
RouterRefreshSecret ==
  IF variant = "otp" THEN env.refresh ELSE DevFallback(env.refresh, "dev_refresh_secret")
EmailVerifySecret == DevFallback(env.emailVerify, "dev_email_verify_secret")
\* The access guard's secret (middleware/auth.js)
GuardAccessSecret == DevFallback(env.access, "dev_access_secret")

\* ------------------------------------------------------------------ tokens
\* A JWT: the payload (typ is the payload's "type" field, "none" when the
\* payload has none), iat/exp in seconds, and the secret that signed it.
NoToken == [typ |-> "absent", sub |-> 0, email |-> "", iat |-> 0, exp |-> 0, key |-> ""]
\* A string that is not a JWT of this server.
Garbage == [typ |-> "garbage", sub |-> 0, email |-> "", iat |-> 0, exp |-> 0, key |-> ""]

AccessTtl == 15 * 60
RefreshTtl == 7 * 24 * 60 * 60
EmailVerifyTtl == 60 * 60

\* jwt.sign(payload, secret, {expiresIn}) at clock t
JwtSign(typ, sub, email, secret, ttl, t) ==
  [typ |-> typ, sub |-> sub, email |-> email,
   iat |-> t \div 1000, exp |-> (t \div 1000) + ttl, key |-> secret]

\* jwt.verify(token, secret) at clock t: does not throw
JwtVerify(token, secret, t) ==
  /\ token.typ \notin {"absent", "garbage"}
  /\ token.key = secret
  /\ (t \div 1000) < token.exp

\* A refresh token this server signed for a user whose record is no longer
\* in the collection (sub 0 is never an _id of the store).
StaleRefresh ==
  [typ |-> "refresh", sub |-> 0, email |-> "gone@x.io", iat |-> 0,
   exp |-> RefreshTtl, key |-> RouterRefreshSecret]

\* ------------------------------------------------------------------- users
NoDate == -1
NoHash == [alg |-> "none", cost |-> 0, of |-> ""]
\* bcrypt.hash(text, cost)
BcryptHash(text, cost) == [alg |-> "bcrypt", cost |-> cost, of |-> text]
\* bcrypt.compare(text, hash)
BcryptCompare(text, hash) == hash.alg = "bcrypt" /\ hash.of = text

EmptyOtp == [codeHash |-> NoHash, expiresAt |-> NoDate, resendAvailableAt |-> NoDate]

NoUser == [email |-> "", phone |-> "", passwordHash |-> NoHash, emailVerified |-> FALSE,
           emailVerifyIssuedAt |-> NoDate, otp |-> EmptyOtp, interests |-> <<>>]

\* User.create({... emailVerified: false}) with the schema's defaults
NewUser(email, phone, pw) ==
  [email |-> email, phone |-> phone, passwordHash |-> BcryptHash(pw.id, 12),
   emailVerified |-> FALSE, emailVerifyIssuedAt |-> NoDate, otp |-> EmptyOtp,
   interests |-> <<>>]

Ids == DOMAIN users
\* User.findOne({ email }) : 0 when there is none
FindByEmail(email) ==
  IF \E i \in Ids : users[i].email = email
    THEN CHOOSE i \in Ids : users[i].email = email
    ELSE 0
\* User.findOne({ $or: [{ email }, { phone }] }) finds one
ExistsEmailOrPhone(email, phone) ==
  \E i \in Ids : users[i].email = email \/ users[i].phone = phone
\* User.findById(id) finds one
FindById(id) == IF id \in Ids THEN id ELSE 0

UserOf(id) == IF id \in Ids THEN users[id] ELSE NoUser

\* --------------------------------------------------------------- responses
NoResp ==
  [route |-> "", status |-> 0, error |-> "", message |-> "",
   accessToken |-> NoToken, devAccessToken |-> NoToken,
   cookieOp |-> "none", cookieVal |-> NoToken,
   requiresVerification |-> FALSE, devLink |-> NoToken,
   userId |-> 0, waitSecs |-> -1]

\* req.body.interests: whether it is an array, and its entries
NoBody == [isArray |-> FALSE, items |-> <<>>]

NoReq ==
  [route |-> "", email |-> "", password |-> "", code |-> "",
   cookie |-> NoToken, bearer |-> NoToken, token |-> NoToken, interests |-> NoBody]

Fail(route, status, error) == [NoResp EXCEPT !.route = route, !.status = status, !.error = error]

\* faulty variant of LoginUnknownEmail: the lookup failure is told apart
LoginUnknownEmailAs404 == Fail("login", 404, "User not found")

\* POST /login: if (!user) return res.status(401).json({ error: "Invalid credentials" })
LoginUnknownEmail == Fail("login", 401, "Invalid credentials")
\* POST /login: if (!valid) return res.status(401).json({ error: "Invalid credentials" })
LoginWrongPassword == Fail("login", 401, "Invalid credentials")

\* faulty variant of NeedsVerification: login never asks for verification
NeedsVerificationNever(user) == FALSE

\* the test of POST /login that sends an unverified user to verification
NeedsVerification(user) == ~user.emailVerified

\* issueTokens(user): throws when a secret is missing
CanIssueTokens == RouterAccessSecret # "" /\ RouterRefreshSecret # ""
AccessTokenFor(id, t) ==
  JwtSign("none", id, UserOf(id).email, RouterAccessSecret, AccessTtl, t)
RefreshTokenFor(id, t) ==
  JwtSign("refresh", id, UserOf(id).email, RouterRefreshSecret, RefreshTtl, t)

\* res.json({ accessToken, user }) after setRefreshCookie(res, refreshToken)
Session(route, id, t) ==
  [NoResp EXCEPT !.route = route, !.status = 200,
                 !.accessToken = AccessTokenFor(id, t),
                 !.cookieOp = "set", !.cookieVal = RefreshTokenFor(id, t),
                 !.userId = id]

SessionTokens(id, t) == {AccessTokenFor(id, t), RefreshTokenFor(id, t)}

\* The tokens kept in `issued' stay within MaxTokens.
Room(new) == Cardinality(issued \cup new) <= MaxTokens

Mail(to, code, link) == [to |-> to, code |-> code, link |-> link]

NoPre == [uid |-> 0, user |-> NoUser, now |-> 0, consumed |-> "", used |-> FALSE,
          loggedOut |-> FALSE, rotated |-> FALSE]

\* No logout has been sent with a refresh token and /refresh has exchanged none.
NoSpent == [loggedOut |-> {}, rotated |-> {}]

\* No request is being answered: the last response has gone out.
Idle == resp = NoResp

\* Every handler ends by recording its request, what it found when it started
\* (the clock, the record the request resolved to, whether that user's code
\* or the presented link had been accepted before, whether the presented
\* cookie had been sent with a logout or exchanged by /refresh before), its
\* response and its e-mails.
Done(q, id, r, mails) ==
  /\ req' = q
  /\ pre' = [uid |-> id, user |-> UserOf(id), now |-> now,
             consumed |-> IF id \in Ids THEN consumed[id] ELSE "",
             used |-> q.token \in usedLinks,
             loggedOut |-> q.cookie \in spent.loggedOut,
             rotated |-> q.cookie \in spent.rotated]
  /\ resp' = r
  /\ outbox' = mails
  /\ UNCHANGED stepVars

CeilDiv(x, d) == -((-x) \div d)

\* ============================================================ OTP router ==
OtpTtlMs == 5 * 60 * 1000
ResendCooldownMs == 45 * 1000

\* setOtp(user): the challenge written to user.otp for `code' at clock t
NewOtp(code, t) ==
  [codeHash |-> BcryptHash(code, 10),
   expiresAt |-> t + OtpTtlMs,
   resendAvailableAt |-> t + ResendCooldownMs]

\* faulty variant of SaveOtp: a save is dropped when the stored challenge
\* has changed since the handler read the record
SaveOtpUnlessChanged(us, id, otp, seen) ==
  IF us[id].otp = seen THEN [us EXCEPT ![id].otp = otp] ELSE us

\* faulty variant of SaveOtp: the save also writes back the flag of a record that was
\* read before it was verified
SaveOtpResetsVerified(us, id, otp, seen) ==
  [us EXCEPT ![id].otp = otp, ![id].emailVerified = FALSE]

\* await user.save() in setOtp: the store takes the document's otp as set
\* by this handler, whatever it holds (`seen' is what the handler had read);
\* a save writes the paths the handler assigned and no other
SaveOtp(us, id, otp, seen) == [us EXCEPT ![id].otp = otp]

\* POST /signup (OTP router)
OtpSignup(email, phone, pw) ==
  /\ Idle
  /\ variant = "otp"
  /\ LET q == [NoReq EXCEPT !.route = "signup", !.email = email, !.password = pw.id]
         id == Len(users) + 1
     IN
     IF ~(IsEmail(email) /\ PasswordOk(pw)) THEN
       /\ Done(q, 0, Fail("signup", 400, "validation"), <<>>)
       /\ UNCHANGED <<users, consumed>>
     ELSE IF ExistsEmailOrPhone(email, phone) THEN
       /\ Done(q, 0, Fail("signup", 409, "Email or phone already registered"), <<>>)
       /\ UNCHANGED <<users, consumed>>
     ELSE
       /\ Len(users) < MaxUsers
       /\ \E code \in Codes, mailOk \in BOOLEAN :
            /\ users' = Append(users, [NewUser(email, phone, pw) EXCEPT !.otp = NewOtp(code, now)])
            /\ consumed' = [consumed EXCEPT ![id] = ""]
            /\ IF mailOk
                 THEN Done(q, 0, [NoResp EXCEPT !.route = "signup", !.status = 201,
                                     !.message = "Signup successful, verification code sent to email.",
                                     !.userId = id],
                           <<Mail(email, code, NoToken)>>)
                 ELSE Done(q, 0, Fail("signup", 500, "Unable to sign up right now"), <<>>)
  /\ UNCHANGED <<variant, env, spent, now, ticks, issued, superseded, usedLinks, latestLink, olderLinks>>

\* POST /login (OTP router)
OtpLogin(email, password) ==
  /\ Idle
  /\ variant = "otp"
  /\ LET q == [NoReq EXCEPT !.route = "login", !.email = email, !.password = password]
         id == FindByEmail(email)
     IN
     IF ~IsEmail(email) THEN
       /\ Done(q, 0, Fail("login", 400, "validation"), <<>>)
       /\ UNCHANGED <<users, issued, consumed>>
     ELSE IF id = 0 THEN
       /\ Done(q, 0, LoginUnknownEmail, <<>>)
       /\ UNCHANGED <<users, issued, consumed>>
     ELSE IF ~BcryptCompare(password, users[id].passwordHash) THEN
       /\ Done(q, id, LoginWrongPassword, <<>>)
       /\ UNCHANGED <<users, issued, consumed>>
     ELSE IF NeedsVerification(users[id]) THEN
       /\ \E code \in Codes, mailOk \in BOOLEAN :
            /\ users' = SaveOtp(users, id, NewOtp(code, now), users[id].otp)
            /\ IF mailOk
                 THEN Done(q, id, [Fail("login", 403, "Email not verified")
                                     EXCEPT !.requiresVerification = TRUE],
                           <<Mail(email, code, NoToken)>>)
                 ELSE Done(q, id, Fail("login", 500, "Unable to login right now"), <<>>)
       /\ consumed' = [consumed EXCEPT ![id] = ""]
       /\ UNCHANGED issued
     ELSE IF ~CanIssueTokens THEN
       /\ Done(q, id, Fail("login", 500, "Unable to login right now"), <<>>)
       /\ UNCHANGED <<users, issued, consumed>>
     ELSE
       /\ Room(SessionTokens(id, now))
       /\ issued' = issued \cup SessionTokens(id, now)
       /\ Done(q, id, Session("login", id, now), <<>>)
       /\ UNCHANGED <<users, consumed>>
  /\ UNCHANGED <<variant, env, spent, now, ticks, superseded, usedLinks, latestLink, olderLinks>>

\* faulty variant of OtpExpired: the two instants are compared in whole seconds
OtpExpiredWholeSeconds(otp, t) == (otp.expiresAt \div 1000) < (t \div 1000)

\* the expiry test of POST /verify-otp: new Date(otp.expiresAt).getTime() < Date.now()
OtpExpired(otp, t) == otp.expiresAt < t

\* faulty variant of OtpMatches: any code passes while a hash is stored
OtpMatchesAny(code, otp) == otp.codeHash # NoHash

\* the code test of POST /verify-otp: bcrypt.compare(code, otp.codeHash)
OtpMatches(code, otp) == BcryptCompare(code, otp.codeHash)

\* faulty variant of Verified: the challenge is left in place
VerifiedKeepsOtp(user) == [user EXCEPT !.emailVerified = TRUE]

\* what POST /verify-otp writes on success: emailVerified = true, otp = {}
Verified(user) == [user EXCEPT !.emailVerified = TRUE, !.otp = EmptyOtp]

\* POST /verify-otp
VerifyOtp(email, code) ==
  /\ Idle
  /\ variant = "otp"
  /\ LET q == [NoReq EXCEPT !.route = "verify-otp", !.email = email, !.code = code]
         id == FindByEmail(email)
         otp == users[id].otp
     IN
     IF ~IsEmail(email) THEN
       /\ Done(q, 0, Fail("verify-otp", 400, "validation"), <<>>)
       /\ UNCHANGED <<users, issued, consumed>>
     ELSE IF id = 0 THEN
       /\ Done(q, 0, Fail("verify-otp", 404, "User not found"), <<>>)
       /\ UNCHANGED <<users, issued, consumed>>
     ELSE IF otp.codeHash = NoHash \/ otp.expiresAt = NoDate THEN
       /\ Done(q, id, Fail("verify-otp", 400, "No active verification code"), <<>>)
       /\ UNCHANGED <<users, issued, consumed>>
     ELSE IF OtpExpired(otp, now) THEN
       /\ Done(q, id, Fail("verify-otp", 400, "Verification code expired"), <<>>)
       /\ UNCHANGED <<users, issued, consumed>>
     ELSE IF ~OtpMatches(code, otp) THEN
       /\ Done(q, id, Fail("verify-otp", 400, "Invalid verification code"), <<>>)
       /\ UNCHANGED <<users, issued, consumed>>
     ELSE
       /\ users' = [users EXCEPT ![id] = Verified(users[id])]
       /\ consumed' = [consumed EXCEPT ![id] = code]
       /\ IF ~CanIssueTokens
            THEN /\ Done(q, id, Fail("verify-otp", 500, "Unable to verify code right now"), <<>>)
                 /\ UNCHANGED issued
            ELSE /\ Room(SessionTokens(id, now))
                 /\ issued' = issued \cup SessionTokens(id, now)
                 /\ Done(q, id, Session("verify-otp", id, now), <<>>)
  /\ UNCHANGED <<variant, env, spent, now, ticks, superseded, usedLinks, latestLink, olderLinks>>

\* Between two clock reads of one synchronous stretch of code the
\* millisecond clock either stays or advances to the next millisecond.
Skews == {0, 1}

\* the clock advancing by `skew' between two reads (an advance counts as a tick)
ClockSkew(skew) ==
  /\ skew = 0 \/ ticks < MaxTicks
  /\ now' = now + skew
  /\ ticks' = IF skew = 0 THEN ticks ELSE ticks + 1

\* the cooldown test of POST /request-otp: resendAt && resendAt > Date.now()
Throttled(otp, t) ==
  LET resendAt == IF otp.resendAvailableAt # NoDate THEN otp.resendAvailableAt ELSE 0
  IN resendAt # 0 /\ resendAt > t

\* Math.ceil(waitMs / 1000) with waitMs = resendAt - Date.now()
WaitSeconds(otp, t) == CeilDiv(otp.resendAvailableAt - t, 1000)

\* POST /request-otp (OTP router)
OtpRequestOtp(email) ==
  /\ Idle
  /\ variant = "otp"
  /\ LET q == [NoReq EXCEPT !.route = "request-otp", !.email = email]
         id == FindByEmail(email)
         otp == users[id].otp
     IN
     IF ~IsEmail(email) THEN
       /\ Done(q, 0, Fail("request-otp", 400, "validation"), <<>>)
       /\ UNCHANGED <<users, consumed, superseded, now, ticks>>
     ELSE IF id = 0 THEN
       /\ Done(q, 0, Fail("request-otp", 404, "User not found"), <<>>)
       /\ UNCHANGED <<users, consumed, superseded, now, ticks>>
     ELSE IF Throttled(otp, now) THEN
       \* waitMs reads the clock a second time
       /\ \E skew \in Skews :
            /\ ClockSkew(skew)
            /\ Done(q, id, [Fail("request-otp", 429, "Please wait") EXCEPT
                              !.waitSecs = WaitSeconds(otp, now + skew)], <<>>)
       /\ UNCHANGED <<users, consumed, superseded>>
     ELSE
       /\ \E code \in Codes, mailOk \in BOOLEAN :
            /\ users' = SaveOtp(users, id, NewOtp(code, now), users[id].otp)
            /\ IF mailOk
                 THEN /\ Done(q, id, [NoResp EXCEPT !.route = "request-otp", !.status = 200,
                                                    !.message = "Verification code sent"],
                              <<Mail(email, code, NoToken)>>)
                      /\ superseded' = [superseded EXCEPT ![id] =
                                          @ \cup (IF otp.codeHash = NoHash THEN {} ELSE {otp.codeHash.of})]
                 ELSE /\ Done(q, id, Fail("request-otp", 500, "Unable to send code right now"), <<>>)
                      /\ UNCHANGED superseded
       /\ consumed' = [consumed EXCEPT ![id] = ""]
       /\ UNCHANGED <<now, ticks>>
  /\ UNCHANGED <<variant, env, spent, issued, usedLinks, latestLink, olderLinks>>

\* ================================================= both routers: sessions ==
\* what a client may put in the refreshToken cookie or after "Bearer "
Presentable == issued \cup {NoToken, Garbage, StaleRefresh}

\* faulty variant of RefreshTokenOk: the type tag is not looked at
RefreshTokenOkAnyType(token, t) ==
  /\ RouterRefreshSecret # ""
  /\ JwtVerify(token, RouterRefreshSecret, t)

\* faulty variant of RefreshTokenOk: the cookie is verified with the access secret
RefreshTokenOkAccessSecret(token, t) ==
  /\ RouterAccessSecret # ""
  /\ JwtVerify(token, RouterAccessSecret, t)
  /\ token.typ = "refresh"

\* faulty variant of RefreshTokenOk: a token that a logout was sent with, or
\* that was exchanged before, is refused (a server-side revocation list)
RefreshTokenOkUnspent(token, t) ==
  /\ RouterRefreshSecret # ""
  /\ JwtVerify(token, RouterRefreshSecret, t)
  /\ token.typ = "refresh"
  /\ token \notin spent.loggedOut \cup spent.rotated

\* the token test of POST /refresh: jwt.verify with the refresh secret and
\* the type tag, inside the try block
RefreshTokenOk(token, t) ==
  /\ RouterRefreshSecret # ""
  /\ JwtVerify(token, RouterRefreshSecret, t)
  /\ token.typ = "refresh"

\* the response of POST /refresh when User.findById finds no user
RefreshUnknownUser == Fail("refresh", 401, "Invalid refresh token")

\* POST /refresh; the handler keeps no record of the tokens it has seen (the
\* history `spent' is kept by the step that runs it)
Refresh(cookie) ==
  /\ Idle
  /\ LET q == [NoReq EXCEPT !.route = "refresh", !.cookie = cookie]
         id == FindById(cookie.sub)
     IN
     IF cookie = NoToken THEN
       /\ Done(q, 0, Fail("refresh", 401, "No refresh token"), <<>>)
       /\ UNCHANGED issued
     ELSE IF ~RefreshTokenOk(cookie, now) THEN
       /\ Done(q, 0, [Fail("refresh", 401, "Invalid refresh token") EXCEPT !.cookieOp = "clear"], <<>>)
       /\ UNCHANGED issued
     ELSE IF id = 0 THEN
       /\ Done(q, 0, RefreshUnknownUser, <<>>)
       /\ UNCHANGED issued
     ELSE IF ~CanIssueTokens THEN
       \* issueTokens throws inside the try block
       /\ Done(q, id, [Fail("refresh", 401, "Invalid refresh token") EXCEPT !.cookieOp = "clear"], <<>>)
       /\ UNCHANGED issued
     ELSE
       /\ Room(SessionTokens(id, now))
       /\ issued' = issued \cup SessionTokens(id, now)
       /\ Done(q, id, Session("refresh", id, now), <<>>)
  /\ UNCHANGED <<variant, env, now, ticks, users, consumed, superseded, usedLinks,
                 latestLink, olderLinks>>

\* faulty variant of LoggedOut: the cookie is left in place
LoggedOutKeepsCookie ==
  [NoResp EXCEPT !.route = "logout", !.status = 200, !.message = "Logged out"]

\* clearRefreshCookie(res); return res.json({ message: "Logged out" })
LoggedOut ==
  [NoResp EXCEPT !.route = "logout", !.status = 200, !.message = "Logged out",
                 !.cookieOp = "clear"]

\* POST /logout; the handler does not look at the request
Logout(cookie) ==
  /\ Idle
  /\ Done([NoReq EXCEPT !.route = "logout", !.cookie = cookie], 0, LoggedOut, <<>>)
  /\ UNCHANGED <<variant, env, now, ticks, users, issued, consumed, superseded, usedLinks,
                 latestLink, olderLinks>>

\* POST /refresh and POST /logout with the history of the refresh tokens they
\* were sent: the token of a successful exchange, the token of a logout
RefreshTracked(cookie) ==
  /\ Refresh(cookie)
  /\ spent' = IF resp'.status = 200
              THEN [spent EXCEPT !.rotated = @ \cup {cookie}]
              ELSE spent

LogoutTracked(cookie) ==
  /\ Logout(cookie)
  /\ spent' = IF cookie.typ = "refresh"
              THEN [spent EXCEPT !.loggedOut = @ \cup {cookie}]
              ELSE spent

\* faulty variant of RequireAuth: the expiry of the token is not looked at
RequireAuthExpired(bearer, t) ==
  /\ bearer \notin {NoToken, Garbage}
  /\ GuardAccessSecret # ""
  /\ bearer.key = GuardAccessSecret

\* requireAuth: the bearer token is accepted (next() is called)
RequireAuth(bearer, t) ==
  /\ bearer # NoToken
  /\ GuardAccessSecret # ""
  /\ JwtVerify(bearer, GuardAccessSecret, t)

\* GET /me behind requireAuth
Me(bearer) ==
  /\ Idle
  /\ LET q == [NoReq EXCEPT !.route = "me", !.bearer = bearer]
         id == FindById(bearer.sub)
     IN
     IF ~RequireAuth(bearer, now) THEN Done(q, 0, Fail("me", 401, "Unauthorized"), <<>>)
     ELSE IF id = 0 THEN Done(q, 0, Fail("me", 404, "User not found"), <<>>)
     ELSE Done(q, id, [NoResp EXCEPT !.route = "me", !.status = 200, !.userId = id], <<>>)
  /\ UNCHANGED <<variant, env, spent, now, ticks, users, issued, consumed, superseded, usedLinks,
                 latestLink, olderLinks>>

\* ------------------------------------------------------- the access guard
\* The Authorization header: what precedes the token, and the token. "" is no header.
Schemes == {"Bearer ", "bearer ", "Basic "}
NoHeader == [scheme |-> "", token |-> NoToken]

\* extractToken(req): header.slice(7) of a header that starts with "Bearer ", else null;
\* an empty rest is as good as null to the guards
ExtractToken(header) == IF header.scheme = "Bearer " THEN header.token ELSE NoToken

\* req.user before a guard has set it
NoReqUser == [id |-> 0, email |-> ""]
\* req.user = { id: decoded.sub, email: decoded.email }
ReqUser(decoded) == [id |-> decoded.sub, email |-> decoded.email]

NoMw == [guard |-> "", header |-> NoHeader, at |-> 0, status |-> 0, nexts |-> 0,
         user |-> NoReqUser]

\* faulty variant of OptionalAuthOk: a token is taken at its word once it has expired
OptionalAuthOkExpired(bearer, t) ==
  /\ bearer \notin {NoToken, Garbage}
  /\ bearer.key = GuardAccessSecret

\* optionalAuth: the bearer token is verified and req.user set
OptionalAuthOk(bearer, t) ==
  /\ bearer # NoToken
  /\ GuardAccessSecret # ""
  /\ JwtVerify(bearer, GuardAccessSecret, t)

\* requireAuth(req, res, next) for a request with this header
GuardRequire(header) ==
  /\ mw = NoMw
  /\ LET token == ExtractToken(header)
         m == [NoMw EXCEPT !.guard = "require", !.header = header, !.at = now]
     IN  mw' = IF RequireAuth(token, now)
               THEN [m EXCEPT !.user = ReqUser(token), !.nexts = 1]
               ELSE [m EXCEPT !.status = 401]
  /\ UNCHANGED <<variant, env, spent, now, ticks, users, issued, req, pre, resp, outbox, consumed,
                 superseded, usedLinks, latestLink, olderLinks, calls, saved, hf, sse, chat,
                 page, chats>>

\* optionalAuth(req, _res, next) for a request with this header
GuardOptional(header) ==
  /\ mw = NoMw
  /\ LET token == ExtractToken(header)
         m == [NoMw EXCEPT !.guard = "optional", !.header = header, !.at = now, !.nexts = 1]
     IN  mw' = IF OptionalAuthOk(token, now) THEN [m EXCEPT !.user = ReqUser(token)] ELSE m
  /\ UNCHANGED <<variant, env, spent, now, ticks, users, issued, req, pre, resp, outbox, consumed,
                 superseded, usedLinks, latestLink, olderLinks, calls, saved, hf, sse, chat,
                 page, chats>>

\* the request that went through the guard is over
GuardEnd ==
  /\ mw # NoMw
  /\ mw' = NoMw
  /\ UNCHANGED <<variant, env, spent, now, ticks, users, issued, req, pre, resp, outbox, consumed,
                 superseded, usedLinks, latestLink, olderLinks, calls, saved, hf, sse, chat,
                 page, chats>>

\* =========================================================== link router ==
\* issueEmailVerifyToken(user) at clock t
EmailVerifyTokenFor(id, email, t) ==
  JwtSign("email-verify", id, email, EmailVerifySecret, EmailVerifyTtl, t)

SupersedeToleranceMs == 1000

\* faulty variant of Superseded: no tolerance between the token's iat and the marker
SupersededNoTolerance(user, token) ==
  /\ user.emailVerifyIssuedAt # NoDate
  /\ token.iat * 1000 < user.emailVerifyIssuedAt

\* the supersession test of POST /verify-email
Superseded(user, token) ==
  /\ user.emailVerifyIssuedAt # NoDate
  /\ token.iat * 1000 < user.emailVerifyIssuedAt - SupersedeToleranceMs

\* the error text of a catch block that hides the cause in production
Shown(generic, cause) == IF env.isProd THEN generic ELSE cause

\* faulty variant of DevLink: the link is echoed whatever NODE_ENV is
DevLinkAlways(token) == token

\* if (!isProd) body.devLink = link || token
DevLink(token) == IF env.isProd THEN NoToken ELSE token

\* sendVerificationLink(user), called on the collection `us': the token is
\* signed at the clock's `now', the issuance marker is read from the clock
\* right after and saved, then the e-mail is sent.  `ok' is the response
\* when the e-mail went out, `failed' the one of the caller's catch block.
SendVerificationLink(q, pid, id, email, us, ok, failed) ==
  LET token == EmailVerifyTokenFor(id, email, now) IN
  IF EmailVerifySecret = "" THEN
    /\ users' = us
    /\ Done(q, pid, failed, <<>>)
    /\ UNCHANGED <<now, ticks, issued, latestLink, olderLinks>>
  ELSE
    \E skew \in Skews, mailOk \in BOOLEAN :
      /\ ClockSkew(skew)
      /\ users' = [us EXCEPT ![id].emailVerifyIssuedAt = now + skew]
      /\ latestLink' = [latestLink EXCEPT ![id] = token]
      /\ olderLinks' = olderLinks \cup ({latestLink[id]} \ {NoToken, token})
      /\ IF mailOk
           THEN /\ Room({token})
                /\ issued' = issued \cup {token}
                /\ Done(q, pid, [ok EXCEPT !.devLink = DevLink(token)], <<Mail(email, "", token)>>)
           ELSE /\ Done(q, pid, failed, <<>>)
                /\ UNCHANGED issued

\* POST /signup (link router)
LinkSignup(email, phone, pw) ==
  /\ Idle
  /\ variant = "link"
  /\ LET q == [NoReq EXCEPT !.route = "signup", !.email = email, !.password = pw.id]
         id == Len(users) + 1
     IN
     IF ~(IsEmail(email) /\ PasswordOk(pw)) THEN
       /\ Done(q, 0, Fail("signup", 400, "validation"), <<>>)
       /\ UNCHANGED <<users, now, ticks, issued, latestLink, olderLinks>>
     ELSE IF ExistsEmailOrPhone(email, phone) THEN
       /\ Done(q, 0, Fail("signup", 409, "Email or phone already registered"), <<>>)
       /\ UNCHANGED <<users, now, ticks, issued, latestLink, olderLinks>>
     ELSE
       /\ Len(users) < MaxUsers
       /\ SendVerificationLink(q, 0, id, email, Append(users, NewUser(email, phone, pw)),
            [NoResp EXCEPT !.route = "signup", !.status = 201,
                           !.message = "Signup successful. Check your email for a verification link.",
                           !.userId = id],
            Fail("signup", 500, Shown("Unable to sign up right now", "cause")))
  /\ UNCHANGED <<variant, env, spent, consumed, superseded, usedLinks>>

\* POST /login (link router)
LinkLogin(email, password) ==
  /\ Idle
  /\ variant = "link"
  /\ LET q == [NoReq EXCEPT !.route = "login", !.email = email, !.password = password]
         id == FindByEmail(email)
     IN
     IF ~IsEmail(email) THEN
       /\ Done(q, 0, Fail("login", 400, "validation"), <<>>)
       /\ UNCHANGED <<users, now, ticks, issued, latestLink, olderLinks>>
     ELSE IF id = 0 THEN
       /\ Done(q, 0, LoginUnknownEmail, <<>>)
       /\ UNCHANGED <<users, now, ticks, issued, latestLink, olderLinks>>
     ELSE IF ~BcryptCompare(password, users[id].passwordHash) THEN
       /\ Done(q, id, LoginWrongPassword, <<>>)
       /\ UNCHANGED <<users, now, ticks, issued, latestLink, olderLinks>>
     ELSE IF NeedsVerification(users[id]) THEN
       SendVerificationLink(q, id, id, email, users,
         [Fail("login", 403, "Email not verified") EXCEPT !.requiresVerification = TRUE],
         Fail("login", 500, Shown("Unable to login right now", "cause")))
     ELSE IF ~CanIssueTokens THEN
       /\ Done(q, id, Fail("login", 500, Shown("Unable to login right now", "cause")), <<>>)
       /\ UNCHANGED <<users, now, ticks, issued, latestLink, olderLinks>>
     ELSE
       /\ Room(SessionTokens(id, now))
       /\ issued' = issued \cup SessionTokens(id, now)
       /\ Done(q, id, Session("login", id, now), <<>>)
       /\ UNCHANGED <<users, now, ticks, latestLink, olderLinks>>
  /\ UNCHANGED <<variant, env, spent, consumed, superseded, usedLinks>>

\* err.message of a failed jwt.verify: the signature is checked before the expiry
JwtError(token, secret) ==
  IF token.typ \in {"absent", "garbage"} THEN "jwt malformed"
  ELSE IF token.key # secret THEN "invalid signature"
  ELSE "jwt expired"

SupersededError == "Verification link has been superseded. Please use the latest email."

\* what POST /verify-email writes on success
LinkVerified(user) ==
  [user EXCEPT !.emailVerified = TRUE, !.emailVerifyIssuedAt = NoDate, !.otp = EmptyOtp]

\* POST /verify-email
VerifyEmail(token) ==
  /\ Idle
  /\ variant = "link"
  /\ LET q == [NoReq EXCEPT !.route = "verify-email", !.token = token]
         id == FindById(token.sub)
     IN
     IF token = NoToken THEN
       /\ Done(q, id, Fail("verify-email", 400, "validation"), <<>>)
       /\ UNCHANGED <<users, issued, usedLinks>>
     ELSE IF EmailVerifySecret = "" THEN
       /\ Done(q, id, Fail("verify-email", 400,
                          Shown("Unable to verify email right now",
                                "Email verification secret missing")), <<>>)
       /\ UNCHANGED <<users, issued, usedLinks>>
     ELSE IF ~JwtVerify(token, EmailVerifySecret, now) THEN
       /\ Done(q, id, Fail("verify-email", 400,
                          Shown("Unable to verify email right now",
                                JwtError(token, EmailVerifySecret))), <<>>)
       /\ UNCHANGED <<users, issued, usedLinks>>
     ELSE IF token.typ # "email-verify" THEN
       /\ Done(q, id, Fail("verify-email", 400, "Invalid verification token"), <<>>)
       /\ UNCHANGED <<users, issued, usedLinks>>
     ELSE IF id = 0 \/ UserOf(id).email # token.email THEN
       /\ Done(q, id, Fail("verify-email", 400, "Invalid verification token"), <<>>)
       /\ UNCHANGED <<users, issued, usedLinks>>
     ELSE IF Superseded(users[id], token) THEN
       /\ Done(q, id, Fail("verify-email", 400, SupersededError), <<>>)
       /\ UNCHANGED <<users, issued, usedLinks>>
     ELSE
       /\ users' = [users EXCEPT ![id] = LinkVerified(users[id])]
       /\ usedLinks' = usedLinks \cup {token}
       /\ IF ~CanIssueTokens
            THEN /\ Done(q, id, Fail("verify-email", 400,
                                     Shown("Unable to verify email right now",
                                           "JWT secrets are missing")), <<>>)
                 /\ UNCHANGED issued
            ELSE /\ Room(SessionTokens(id, now))
                 /\ issued' = issued \cup SessionTokens(id, now)
                 /\ Done(q, id, [Session("verify-email", id, now) EXCEPT
                                   !.devAccessToken = DevLink(AccessTokenFor(id, now))], <<>>)
  /\ UNCHANGED <<variant, env, spent, now, ticks, consumed, superseded, latestLink, olderLinks>>

\* the body shared by POST /request-email-verify and the legacy POST /request-otp
ResendLink(route, email) ==
  /\ Idle
  /\ variant = "link"
  /\ LET q == [NoReq EXCEPT !.route = route, !.email = email]
         id == FindByEmail(email)
     IN
     IF ~IsEmail(email) THEN
       /\ Done(q, 0, Fail(route, 400, "validation"), <<>>)
       /\ UNCHANGED <<users, now, ticks, issued, latestLink, olderLinks>>
     ELSE IF id = 0 THEN
       /\ Done(q, 0, Fail(route, 404, "User not found"), <<>>)
       /\ UNCHANGED <<users, now, ticks, issued, latestLink, olderLinks>>
     ELSE IF users[id].emailVerified THEN
       /\ Done(q, id, [NoResp EXCEPT !.route = route, !.status = 200,
                                     !.message = "Email already verified"], <<>>)
       /\ UNCHANGED <<users, now, ticks, issued, latestLink, olderLinks>>
     ELSE
       SendVerificationLink(q, id, id, email, users,
         [NoResp EXCEPT !.route = route, !.status = 200, !.message = "Verification link sent"],
         Fail(route, 500, "Unable to send verification link right now"))
  /\ UNCHANGED <<variant, env, spent, consumed, superseded, usedLinks>>

\* POST /request-email-verify
RequestEmailVerify(email) == ResendLink("request-email-verify", email)

\* POST /request-otp (link router): the legacy route, now sending a link
LinkRequestOtp(email) == ResendLink("request-otp", email)

\* ------------------------------------------------------------- interests
\* An entry of the submitted list is a sequence of characters, "s" a space.
RECURSIVE TrimSpaces(_)
TrimSpaces(entry) ==
  IF entry = <<>> THEN entry
  ELSE IF Head(entry) = "s" THEN TrimSpaces(Tail(entry))
  ELSE IF entry[Len(entry)] = "s" THEN TrimSpaces(SubSeq(entry, 1, Len(entry) - 1))
  ELSE entry

\* faulty variant of CleanInterests: the entries are not trimmed
CleanInterestsUntrimmed(items) == SelectSeq(items, LAMBDA e : e # <<>>)

\* (req.body.interests || []).map((i) => String(i || "").trim()).filter(Boolean)
CleanInterests(items) ==
  SelectSeq([i \in DOMAIN items |-> TrimSpaces(items[i])], LAMBDA e : e # <<>>)

\* the bodies sent: no array, an empty array, an array with entries to trim and to drop
InterestBodies ==
  { NoBody,
    [isArray |-> TRUE, items |-> <<>>],
    [isArray |-> TRUE, items |-> << <<"s", "b", "s">>, <<>>, <<"s">>, <<"a">> >>] }

\* POST /interests behind requireAuth and the isArray validator
Interests(bearer, body) ==
  /\ Idle
  /\ variant = "link"
  /\ LET q == [NoReq EXCEPT !.route = "interests", !.bearer = bearer, !.interests = body]
         id == FindById(bearer.sub)
     IN
     IF ~RequireAuth(bearer, now) THEN
       /\ Done(q, 0, Fail("interests", 401, "Unauthorized"), <<>>)
       /\ UNCHANGED users
     ELSE IF ~body.isArray THEN
       /\ Done(q, id, Fail("interests", 400, "validation"), <<>>)
       /\ UNCHANGED users
     ELSE IF id = 0 THEN
       /\ Done(q, 0, Fail("interests", 404, "User not found"), <<>>)
       /\ UNCHANGED users
     ELSE
       /\ users' = [users EXCEPT ![id].interests = CleanInterests(body.items)]
       /\ Done(q, id, [NoResp EXCEPT !.route = "interests", !.status = 200, !.userId = id], <<>>)
  /\ UNCHANGED <<variant, env, spent, now, ticks, issued, consumed, superseded, usedLinks,
                 latestLink, olderLinks>>

\* ================================================================= clock ==
\* The durations at which the handlers' time tests change their answer.
OtpDeltas == {1, ResendCooldownMs - 1, OtpTtlMs}
LinkDeltas == {1, SupersedeToleranceMs, EmailVerifyTtl * 1000}
SessionDeltas == {AccessTtl * 1000, RefreshTtl * 1000}

Tick(d) ==
  /\ Idle
  /\ ticks < MaxTicks
  /\ now' = now + d
  /\ ticks' = ticks + 1
  /\ UNCHANGED <<variant, env, spent, users, issued, req, pre, resp, outbox, consumed, superseded,
                 usedLinks, latestLink, olderLinks>>
  /\ UNCHANGED stepVars

\* res.json(...) ends the request: the response is out and the server waits
\* for the next request.
EndRequest ==
  /\ ~Idle
  /\ req' = NoReq
  /\ pre' = NoPre
  /\ resp' = NoResp
  /\ outbox' = <<>>
  /\ UNCHANGED <<variant, env, spent, now, ticks, users, issued, consumed, superseded, usedLinks,
                 latestLink, olderLinks>>
  /\ UNCHANGED stepVars

\* ============================ stream relay: frames (part_007, routes/chatStream.js) ==

Min(a, b) == IF a < b THEN a ELSE b

\* `!process.env.X`: the credential is unset or empty
MissingNever(value) == FALSE
Missing(value) == value = ""

Credentials == {"", "key"}

\* an outgoing `data: {"choices":[{"delta":{"content":...}}]}\n\n` frame
Content(c) == [kind |-> "content", content |-> c]
\* the outgoing `data: [DONE]\n\n` frame
DoneFrame == [kind |-> "done", content |-> <<>>]

\* ============================ streamTextAsSSE (part_007) ================================

chunkSize == 80

\* a text of n characters; character i is written i, so that equal texts are equal sequences
TextOf(n) == [i \in 1..n |-> i]

\* safeText.slice(index, index + size), index counted from 0
SliceOneMore(text, index, size) == SubSeq(text, index + 1, Min(index + size + 1, Len(text)))
Slice(text, index, size) == SubSeq(text, index + 1, Min(index + size, Len(text)))

\* `closed' and `timer' are the closed and timeoutId of start(); `enqueues' counts the calls
\* of controller.enqueue, `threw' those that threw because the stream was cancelled.
NoSse ==
  [state |-> "none", text |-> <<>>, index |-> 0, closed |-> FALSE, timer |-> FALSE,
   out |-> <<>>, closes |-> 0, enqueues |-> 0, threw |-> 0, cancelThrew |-> FALSE,
   enqueuesAtCancel |-> 0]

\* pushChunk(): at the end of the text the marker and close(), else the next slice and a
\* timer; controller.enqueue throws on a stream that is no longer readable, which ends the
\* call
PushChunk(s) ==
  IF s.index >= Len(s.text)
  THEN IF ~s.closed
       THEN IF s.state # "readable"
            THEN [s EXCEPT !.timer = FALSE, !.enqueues = @ + 1, !.threw = @ + 1]
            ELSE [s EXCEPT !.timer = FALSE, !.out = Append(@, DoneFrame), !.closes = @ + 1,
                           !.enqueues = @ + 1, !.closed = TRUE, !.state = "closed"]
       ELSE s
  ELSE LET chunk == Slice(s.text, s.index, chunkSize)
           s1 == [s EXCEPT !.index = @ + Len(chunk)]
       IN  IF ~s1.closed
           THEN IF s.state # "readable"
                THEN [s1 EXCEPT !.enqueues = @ + 1, !.threw = @ + 1]
                ELSE [s1 EXCEPT !.out = Append(@, Content(chunk)), !.enqueues = @ + 1,
                                !.timer = TRUE]
           ELSE s1

\* new ReadableStream({start}): start runs pushChunk() once, synchronously
StreamTextAsSSE(text) == PushChunk([NoSse EXCEPT !.state = "readable", !.text = text])

\* the setTimeout(..., 0) callback: timeoutId = null; pushChunk()
SseTimer ==
  /\ sse.timer
  /\ sse' = PushChunk([sse EXCEPT !.timer = FALSE])
  /\ UNCHANGED <<hf, chat>>
  /\ UNCHANGED authVars

\* the body of cancel(): timeoutId and closed are declared with let inside start(), so the
\* test `if (timeoutId)' throws a ReferenceError and neither statement takes effect
SseCancelled(s) == [s EXCEPT !.cancelThrew = TRUE]

\* the consumer cancels the synthesized stream: the stream is closed for the consumer, then
\* cancel() runs
SseCancel ==
  /\ sse.state = "readable"
  /\ sse' = [SseCancelled(sse) EXCEPT !.state = "cancelled", !.enqueuesAtCancel = sse.enqueues]
  /\ UNCHANGED <<hf, chat>>
  /\ UNCHANGED authVars

\* ============================ transformHFStream (part_007) ==============================

\* The upstream body is a sequence of symbols: "N" is a newline; "a" followed by "b" is the
\* JSON text of an event whose content field is not empty, and neither half parses alone;
\* "e" is the JSON text of an event whose content is empty; "D" is the text [DONE].
Bytes == {"a", "b", "e", "D", "N"}

ByteSeqs == UNION {[1..k -> Bytes] : k \in 0..MaxBytes}

\* raw.split("\n").map(strip "data:").join("").trim()
Normalized(raw) == SelectSeq(raw, LAMBDA x : x # "N")

\* String.prototype.trim(): newlines are the only white space of the alphabet
RECURSIVE Trim(_)
Trim(s) ==
  IF s = <<>> THEN s
  ELSE IF Head(s) = "N" THEN Trim(Tail(s))
  ELSE IF s[Len(s)] = "N" THEN Trim(SubSeq(s, 1, Len(s) - 1))
  ELSE s

\* faulty variant of EmitEvent: [DONE] is relayed but the controller is left open
EmitEventKeepsOpen(raw, out) ==
  LET normalized == Normalized(raw) IN
  IF raw = <<>> \/ normalized = <<>> THEN [out |-> out, closed |-> FALSE]
  ELSE IF normalized = <<"D">> THEN [out |-> Append(out, DoneFrame), closed |-> FALSE]
  ELSE IF normalized = <<"a", "b">> THEN [out |-> Append(out, Content(normalized)), closed |-> FALSE]
  ELSE [out |-> out, closed |-> FALSE]

\* emitEvent(raw, controller): the frames enqueued and whether the controller was closed
EmitEvent(raw, out) ==
  LET normalized == Normalized(raw) IN
  IF raw = <<>> \/ normalized = <<>> THEN [out |-> out, closed |-> FALSE]
  ELSE IF normalized = <<"D">> THEN [out |-> Append(out, DoneFrame), closed |-> TRUE]
  ELSE IF normalized = <<"a", "b">> THEN [out |-> Append(out, Content(normalized)), closed |-> FALSE]
  ELSE [out |-> out, closed |-> FALSE]

\* buffer.indexOf("\n\n"), counted from 1; 0 when there is none
IndexOfBlankLine(buffer) ==
  LET hits == {i \in 1..(Len(buffer) - 1) : buffer[i] = "N" /\ buffer[i + 1] = "N"}
  IN  IF hits = {} THEN 0 ELSE CHOOSE i \in hits : \A j \in hits : i <= j

\* drainBuffer(controller, flush) on the closure's buffer and closed flag
RECURSIVE DrainBuffer(_, _, _, _)
DrainBuffer(buffer, closed, out, flush) ==
  IF closed THEN [buffer |-> buffer, closed |-> closed, out |-> out]
  ELSE LET idx == IndexOfBlankLine(buffer) IN
       IF idx = 0
       THEN IF flush /\ Trim(buffer) # <<>>
            THEN LET e == EmitEvent(Trim(buffer), out)
                 IN  [buffer |-> <<>>, closed |-> e.closed, out |-> e.out]
            ELSE [buffer |-> buffer, closed |-> closed, out |-> out]
       ELSE LET rawEvent == SubSeq(buffer, 1, idx - 1)
                rest == SubSeq(buffer, idx + 2, Len(buffer))
                e == EmitEvent(rawEvent, out)
            IN  IF e.closed
                THEN [buffer |-> rest, closed |-> TRUE, out |-> e.out]
                ELSE DrainBuffer(rest, FALSE, e.out, flush)

NoHf ==
  [pc |-> "idle", token |-> "", status |-> 0, ctype |-> "", fetches |-> 0,
   state |-> "none", src |-> <<>>, pending |-> "none", chunk |-> <<>>, buffer |-> <<>>,
   closed |-> FALSE, out |-> <<>>, reads |-> 0, closes |-> 0, readerCancelled |-> FALSE,
   readsAtCancel |-> 0, outAtCancel |-> 0,
   due |-> FALSE, pullAgain |-> FALSE, want |-> FALSE, taken |-> 0, body |-> <<>>]

\* new Response(JSON.stringify(...), {status, headers: application/json})
HfJson(h, status) == [h EXCEPT !.pc = "returned", !.status = status, !.ctype = "application/json"]

\* new Response(stream, {headers: text/event-stream}); the status defaults to 200
HfStream(h) == [h EXCEPT !.pc = "returned", !.status = 200, !.ctype = "text/event-stream"]

HfBodies == {"ok", "badjson", "nomessages"}
HfUpstreams == {"unreachable", "refused", "events", "json"}
UpstreamErrorStatus == 503

\* ============================ /api/chat (routes/chatStream.js) ==========================

\* the characters of a chunk's text: a plain one, a double quote, a newline, a backslash
ChatChars == {"x", "Q", "N", "B"}
ChatTexts == {<<c>> : c \in ChatChars}

\* text.replace(/"/g, '\\"').replace(/\n/g, "\\n"): "n" is the letter n
RECURSIVE Escaped(_)
Escaped(text) ==
  IF text = <<>> THEN <<>>
  ELSE (CASE Head(text) = "Q" -> <<"B", "Q">>
          [] Head(text) = "N" -> <<"B", "n">>
          [] OTHER -> <<Head(text)>>) \o Escaped(Tail(text))

\* `0:"${...}"\n`
ChatFrame(text) == <<"0", ":", "Q">> \o Escaped(text) \o <<"Q", "N">>

NoChat ==
  [pc |-> "idle", key |-> "", status |-> 0, ctype |-> "", headersSent |-> FALSE,
   ended |-> FALSE, frames |-> <<>>, calls |-> 0, failed |-> FALSE, bodies |-> 0,
   disconnected |-> FALSE, pulls |-> 0, pullsAtDisconnect |-> 0, framesAtDisconnect |-> 0]

\* res.status(status).json(...): express keeps a Content-Type that is already set
ChatJson(c, status) ==
  [c EXCEPT !.pc = "returned", !.status = status, !.headersSent = TRUE, !.ended = TRUE,
            !.bodies = @ + 1,
            !.ctype = IF @ = "" THEN "application/json" ELSE @]

\* the catch block: an error response only while no header has gone out
ChatCatch(c) ==
  IF ~c.headersSent
  THEN ChatJson([c EXCEPT !.failed = TRUE], 500)
  ELSE [c EXCEPT !.failed = TRUE, !.pc = "returned"]

\* one request is followed at a time; the next may start once the handler of the other
\* relay has answered before reaching its upstream
ChatQuiet == chat.pc = "idle" \/ (chat.pc = "returned" /\ chat.calls = 0)
HfQuiet == hf.pc = "idle" \/ (hf.pc = "returned" /\ hf.fetches = 0)

ChatBodies == {"ok", "nomessages", "empty"}

\* POST /api/chat up to the await of chat.sendMessageStream; optionalAuth lets every request pass
ChatRequest(key, body) ==
  /\ chat.pc = "idle"
  /\ HfQuiet
  /\ LET c == [chat EXCEPT !.key = key] IN
     chat' = IF Missing(key) THEN ChatJson(c, 500)
             ELSE IF body = "nomessages" THEN ChatJson(c, 400)
             ELSE IF body = "empty" THEN ChatCatch(c)
             ELSE [c EXCEPT !.pc = "calling", !.calls = @ + 1]
  /\ UNCHANGED <<hf, sse>>
  /\ UNCHANGED authVars

\* chat.sendMessageStream settles: the three setHeader calls, or the catch block
ChatUpstreamOpen(ok) ==
  /\ chat.pc = "calling"
  /\ chat' = IF ok THEN [chat EXCEPT !.pc = "streaming", !.ctype = "text/event-stream"]
             ELSE ChatCatch(chat)
  /\ UNCHANGED <<hf, sse>>
  /\ UNCHANGED authVars

\* one round of the for await loop: res.write of the frame; the first write sends the headers
ChatChunk(text) ==
  /\ chat.pc = "streaming"
  /\ Len(chat.frames) < MaxChunks
  /\ chat' = [chat EXCEPT !.frames = Append(@, ChatFrame(text)), !.headersSent = TRUE,
                          !.status = 200, !.pulls = @ + 1]
  /\ UNCHANGED <<hf, sse>>
  /\ UNCHANGED authVars

\* the upstream stream is exhausted: res.end()
ChatEnd ==
  /\ chat.pc = "streaming"
  /\ chat' = [chat EXCEPT !.pc = "returned", !.ended = TRUE, !.headersSent = TRUE,
                          !.status = 200]
  /\ UNCHANGED <<hf, sse>>
  /\ UNCHANGED authVars

\* The client closes the connection while the handler is at an await. The route registers
\* no close listener on req or res and passes no abort signal to the upstream call.
ChatDisconnect ==
  /\ chat.pc \in {"calling", "streaming"}
  /\ ~chat.disconnected
  /\ chat' = [chat EXCEPT !.disconnected = TRUE, !.pullsAtDisconnect = chat.pulls,
                          !.framesAtDisconnect = Len(chat.frames)]
  /\ UNCHANGED <<hf, sse>>
  /\ UNCHANGED authVars

\* the upstream stream or chunk.text() throws inside the loop
ChatFail ==
  /\ chat.pc = "streaming"
  /\ chat' = ChatCatch(chat)
  /\ UNCHANGED <<hf, sse>>
  /\ UNCHANGED authVars

\* ============================ the passthrough handler (part_007) ========================

\* handler(req): every await of it touches no shared state, so it is one step
HfHandler(token, body, upstream) ==
  /\ hf.pc = "idle"
  /\ ChatQuiet
  /\ LET h == [hf EXCEPT !.token = token]
         h1 == [h EXCEPT !.fetches = @ + 1]
     IN  IF Missing(token) THEN hf' = HfJson(h, 500) /\ sse' = sse
         ELSE IF body # "ok" THEN hf' = HfJson(h, 400) /\ sse' = sse
         ELSE CASE upstream = "unreachable" -> hf' = HfJson(h1, 500) /\ sse' = sse
                [] upstream = "refused" -> hf' = HfJson(h1, UpstreamErrorStatus) /\ sse' = sse
                [] upstream = "events" ->
                     /\ \E src \in ByteSeqs :
                          hf' = HfStream([h1 EXCEPT !.state = "readable", !.src = src,
                                                    !.body = src, !.due = TRUE])
                     /\ sse' = sse
                [] upstream = "json" ->
                     /\ hf' = HfStream(h1)
                     /\ \E n \in 0..MaxText : sse' = StreamTextAsSSE(TextOf(n))
  /\ UNCHANGED chat
  /\ UNCHANGED authVars

\* ---- the outgoing ReadableStream's controller (Streams Standard, default controller with
\* the default strategy: high-water mark 1, every chunk of size 1) ----
\* `due': the pull algorithm has been called and has not yet run its first statement;
\* `pending' # "none": it is running; `pullAgain': the controller's [[pullAgain]] flag;
\* `want': the consumer has a read request waiting; `taken': frames the consumer received;
\* `body': the whole upstream body, of which `src' is the part not yet read.

Pulling(h) == h.due \/ h.pending # "none"

\* frames in the controller's queue
Queued(h) == Len(h.out) - h.taken

\* ReadableStreamDefaultControllerShouldCallPull: the stream is readable, close has not been
\* requested, and a read request is waiting or the queue is below the high-water mark
ShouldPull(h) == h.state = "readable" /\ (h.want \/ Queued(h) < 1)

\* ReadableStreamDefaultControllerCallPullIfNeeded
CallPullIfNeeded(h) ==
  IF ~ShouldPull(h) THEN h
  ELSE IF Pulling(h) THEN [h EXCEPT !.pullAgain = TRUE]
  ELSE [h EXCEPT !.due = TRUE]

\* controller.enqueue(frame): a waiting read request takes the frame, else it is queued
Enqueue(h, frame) ==
  CallPullIfNeeded(IF h.want
                   THEN [h EXCEPT !.out = Append(@, frame), !.taken = @ + 1, !.want = FALSE]
                   ELSE [h EXCEPT !.out = Append(@, frame)])

RECURSIVE EnqueueAll(_, _)
EnqueueAll(h, frames) ==
  IF frames = <<>> THEN h ELSE EnqueueAll(Enqueue(h, Head(frames)), Tail(frames))

\* the pull promise fulfils: [[pulling]] is reset and a requested repeat is considered
PullFulfilled(h) ==
  LET h1 == [h EXCEPT !.pending = "none", !.chunk = <<>>, !.due = FALSE] IN
  IF h1.pullAgain THEN CallPullIfNeeded([h1 EXCEPT !.pullAgain = FALSE]) ELSE h1

\* pull(controller) up to the await of reader.read()
HfPull ==
  /\ hf.state = "readable"
  /\ hf.due
  /\ hf.pending = "none"
  /\ hf' = IF hf.closed
           THEN PullFulfilled([hf EXCEPT !.closes = @ + 1, !.state = "closed", !.want = FALSE])
           ELSE [hf EXCEPT !.due = FALSE, !.pending = "wait", !.reads = @ + 1]
  /\ UNCHANGED <<sse, chat>>
  /\ UNCHANGED authVars

\* the upstream settles the read: some bytes, the end of the body, or an error
HfRead ==
  /\ hf.pending = "wait"
  /\ \/ /\ hf.src = <<>>
        /\ hf' = [hf EXCEPT !.pending = "done"]
     \/ \E k \in 1..Len(hf.src) :
          hf' = [hf EXCEPT !.pending = "value", !.chunk = SubSeq(hf.src, 1, k),
                           !.src = SubSeq(hf.src, k + 1, Len(hf.src))]
     \/ hf' = [hf EXCEPT !.pending = "error"]
  /\ UNCHANGED <<sse, chat>>
  /\ UNCHANGED authVars

\* pull(controller) after the await: the done branch or the value branch, and the
\* fulfilment of the promise pull returned
HfResume ==
  /\ hf.pending \in {"value", "done", "error"}
  /\ LET flush == hf.pending = "done"
         buffer == IF hf.pending = "value" THEN hf.buffer \o hf.chunk ELSE hf.buffer
         d == DrainBuffer(buffer, hf.closed, hf.out, flush)
         mark == flush /\ ~d.closed
         closedNow == (d.closed /\ ~hf.closed) \/ mark
         frames == SubSeq(d.out, Len(hf.out) + 1, Len(d.out))
                     \o (IF mark THEN <<DoneFrame>> ELSE <<>>)
         h1 == EnqueueAll([hf EXCEPT !.buffer = d.buffer], frames)
         h2 == [h1 EXCEPT !.closed = d.closed \/ mark,
                          !.closes = IF closedNow THEN @ + 1 ELSE @,
                          !.want = IF closedNow THEN FALSE ELSE @,
                          !.state = IF closedNow /\ @ = "readable" THEN "closed" ELSE @]
     IN  hf' = IF hf.pending = "error"
               THEN [hf EXCEPT !.pending = "none", !.chunk = <<>>, !.want = FALSE,
                               !.pullAgain = FALSE,
                               !.state = IF @ = "readable" THEN "errored" ELSE @]
               ELSE PullFulfilled(h2)
  /\ UNCHANGED <<sse, chat>>
  /\ UNCHANGED authVars

\* the consumer of the response body calls read(): it takes the next queued frame, or
\* leaves a read request; it has one request waiting at a time
HfConsume ==
  /\ hf.state \in {"readable", "closed"}
  /\ ~hf.want
  /\ hf.state = "readable" \/ Queued(hf) > 0
  /\ hf' = IF Queued(hf) > 0
           THEN CallPullIfNeeded([hf EXCEPT !.taken = @ + 1])
           ELSE CallPullIfNeeded([hf EXCEPT !.want = TRUE])
  /\ UNCHANGED <<sse, chat>>
  /\ UNCHANGED authVars

\* cancel(): reader.cancel(); closed = true
AfterCancelKeepsOpen(h) == [h EXCEPT !.readerCancelled = TRUE]
AfterCancel(h) == [h EXCEPT !.readerCancelled = TRUE, !.closed = TRUE]

\* the consumer cancels the outgoing stream; a read that is waiting settles as done
HfCancel ==
  /\ hf.state = "readable"
  /\ hf' = [AfterCancel(hf) EXCEPT !.state = "cancelled",
                                   !.pending = IF @ = "wait" THEN "done" ELSE @,
                                   !.due = FALSE, !.want = FALSE,
                                   !.readsAtCancel = hf.reads,
                                   !.outAtCancel = Len(hf.out)]
  /\ UNCHANGED <<sse, chat>>
  /\ UNCHANGED authVars

\* the upstream delivers the body to its end: a read settles with bytes or with done
HfDeliver == HfRead /\ hf'.pending # "error"

\* ============================ the interests page (part_000) =============================
\* handleSubmit followed await by await.  The page talks to POST /api/auth/interests and
\* POST /api/auth/refresh; an answer is one of those the two handlers give, or the fetch
\* is rejected (no answer arrives).

MaxSubmits == 2

PresetInterests == {"Engineering", "Writing"}

SessionExpired == "Session expired. Please log in again."

\* fetch rejecting: status 0 stands for no response
Rejected == [status |-> 0, error |-> "Failed to fetch", token |-> FALSE]

\* what POST /interests answers (part_009:283-303 behind requireAuth); a 400 carries
\* `errors', not `error'
InterestsAnswers ==
  { [status |-> 200, error |-> "", token |-> FALSE],
    [status |-> 400, error |-> "", token |-> FALSE],
    [status |-> 401, error |-> "Unauthorized", token |-> FALSE],
    [status |-> 404, error |-> "User not found", token |-> FALSE],
    [status |-> 500, error |-> "Unable to save interests right now", token |-> FALSE] }

\* what POST /refresh answers: 200 with an access token, or 401
RefreshAnswers ==
  { [status |-> 200, error |-> "", token |-> TRUE],
    [status |-> 401, error |-> "No refresh token", token |-> FALSE],
    [status |-> 401, error |-> "Invalid refresh token", token |-> FALSE] }

\* res.ok
Ok(ans) == ans.status >= 200 /\ ans.status <= 299

\* data?.error || `Request failed (${res.status})`
MessageOf(ans) == IF ans.error # "" THEN ans.error ELSE "Request failed"

\* /unauthorized/i.test(err.message) || err?.message === "Unauthorized"
SaysUnauthorized(msg) == msg \in {"Unauthorized"}

NoPage ==
  [pc |-> "closed", selected |-> {}, token |-> FALSE, loading |-> FALSE, error |-> "",
   goes |-> "", retrying |-> FALSE, first |-> Rejected, submits |-> 0,
   posts |-> 0, refreshes |-> 0, interests |-> -1, refresh |-> -1]

\* what the page leaves alone
PageFrame ==
  UNCHANGED <<variant, env, now, ticks, users, issued, req, pre, resp, outbox, consumed,
              superseded, usedLinks, latestLink, olderLinks, spent, calls, saved, mw,
              hf, sse, chat, chats>>

\* the catch and finally blocks of handleSubmit for an error with this message
Caught(pg, msg) ==
  IF SaysUnauthorized(msg)
  THEN [pg EXCEPT !.pc = "idle", !.error = SessionExpired, !.goes = "/auth/login",
                  !.loading = FALSE]
  ELSE [pg EXCEPT !.pc = "idle", !.error = msg, !.loading = FALSE]

\* faulty variant of ShouldRefresh: the retry is answered like the first attempt
ShouldRefreshAgain(ans, retrying) == ans.status = 401

\* res.status === 401 && !retrying
ShouldRefresh(ans, retrying) == ans.status = 401 /\ ~retrying

\* the page is mounted; the effect sends a visitor without a stored token to the login
PageOpen(stored) ==
  /\ page.pc = "closed"
  /\ page' = IF stored
             THEN [page EXCEPT !.pc = "idle", !.token = TRUE]
             ELSE [page EXCEPT !.pc = "idle", !.error = SessionExpired, !.goes = "/auth/login"]
  /\ PageFrame

\* toggleInterest(value)
PageToggle(value) ==
  /\ page.pc = "idle"
  /\ page' = [page EXCEPT !.selected = IF value \in @ THEN @ \ {value} ELSE @ \cup {value}]
  /\ PageFrame

\* handleSubmit up to the first fetch of submitOnce(false)
PageSubmit ==
  /\ page.pc = "idle"
  /\ page.submits < MaxSubmits
  /\ LET pg == [page EXCEPT !.error = "", !.goes = "", !.retrying = FALSE,
                            !.submits = @ + 1, !.posts = 0, !.refreshes = 0,
                            !.interests = -1, !.refresh = -1, !.first = Rejected]
     IN  page' = IF pg.selected = {}
                 THEN [pg EXCEPT !.error = "Pick at least one interest.", !.loading = FALSE]
                 ELSE IF ~pg.token
                 THEN [pg EXCEPT !.error = SessionExpired, !.goes = "/auth/login",
                                 !.loading = FALSE]
                 ELSE [pg EXCEPT !.pc = "interests", !.loading = TRUE, !.posts = 1]
  /\ PageFrame

\* submitOnce after await fetch("/api/auth/interests") and await res.json()
PageInterestsAnswer(ans) ==
  /\ page.pc = "interests"
  /\ LET pg == [page EXCEPT !.interests = ans.status] IN
     page' = IF ans = Rejected THEN Caught(pg, ans.error)
             ELSE IF ShouldRefresh(ans, pg.retrying)
             THEN [pg EXCEPT !.pc = "refresh", !.first = ans, !.refreshes = @ + 1]
             ELSE IF ~Ok(ans) THEN Caught(pg, MessageOf(ans))
             ELSE [pg EXCEPT !.pc = "idle", !.goes = "/", !.loading = FALSE]
  /\ PageFrame

\* submitOnce after await fetch("/api/auth/refresh") and await refreshRes.json(): the
\* retry with the new token, or the first answer's error
PageRefreshAnswer(ans) ==
  /\ page.pc = "refresh"
  /\ LET pg == [page EXCEPT !.refresh = ans.status] IN
     page' = IF ans = Rejected THEN Caught(pg, ans.error)
             ELSE IF Ok(ans) /\ ans.token
             THEN [pg EXCEPT !.pc = "interests", !.retrying = TRUE, !.token = TRUE,
                             !.posts = @ + 1]
             ELSE Caught(pg, MessageOf(pg.first))
  /\ PageFrame

\* ============================ the chats router (routes/chats.js) ========================
\* Every route runs requireAuth first and then queries the Chat collection with the
\* caller's id in the filter.  A chat is its _id, its owner, a title and its messages.

MaxChats == 2

\* a value of the request body by its JavaScript type
Absent == [type |-> "undefined", text |-> "", items |-> <<>>]
Str(text) == [type |-> "string", text |-> text, items |-> <<>>]
Arr(items) == [type |-> "array", text |-> "", items |-> items]
Num == [type |-> "number", text |-> "", items |-> <<>>]

\* req.params.id that is no ObjectId: the query throws a CastError
Malformed == 0

NoChatReq == [op |-> "", scheme |-> "", token |-> NoToken, user |-> 0, id |-> 0,
              title |-> Absent, messages |-> Absent, at |-> 0]
NoChatResp == [status |-> 0, chats |-> {}, error |-> "", message |-> ""]
NoChats == [store |-> {}, before |-> {}, made |-> 0, q |-> NoChatReq, r |-> NoChatResp]

ChatsFrame ==
  UNCHANGED <<variant, env, now, ticks, users, issued, req, pre, resp, outbox, consumed,
              superseded, usedLinks, latestLink, olderLinks, spent, calls, saved, mw,
              hf, sse, chat, page>>

\* the request as the handler sees it: req.user is set when requireAuth called next()
ChatsRequest(op, header, id, title, messages) ==
  [op |-> op, scheme |-> header.scheme, token |-> header.token,
   user |-> IF RequireAuth(ExtractToken(header), now)
            THEN ReqUser(ExtractToken(header)).id ELSE 0,
   id |-> id, title |-> title, messages |-> messages, at |-> now]

\* requireAuth let the request through
Guarded(q) == RequireAuth(ExtractToken([scheme |-> q.scheme, token |-> q.token]), q.at)

\* the request is handled: the collection before it, the collection after it, the answer
ChatsDone(q, store, r) ==
  chats' = [chats EXCEPT !.before = chats.store, !.store = store, !.q = q, !.r = r,
                         !.made = @ + Cardinality(store \ chats.store)]

ChatsFail(status, error) == [NoChatResp EXCEPT !.status = status, !.error = error]
ChatsOk(status, found) == [NoChatResp EXCEPT !.status = status, !.chats = found]

\* body("title").optional().isString() and body("messages").optional().isArray()
ValidBody(title, messages) ==
  /\ title.type \in {"undefined", "string"}
  /\ messages.type \in {"undefined", "array"}

\* faulty variant of Owned: the owner is left out of the filter
OwnedByAnyone(c, id, user) == c.id = id

\* the filter { _id: req.params.id, userId: req.user.id }
Owned(c, id, user) == c.id = id /\ c.userId = user

\* the filter { userId: req.user.id }
Mine(store, user) == {c \in store : c.userId = user}

\* GET /
ChatsList(header) ==
  /\ LET q == ChatsRequest("list", header, 0, Absent, Absent) IN
     IF ~Guarded(q) THEN ChatsDone(q, chats.store, ChatsFail(401, "Unauthorized"))
     ELSE ChatsDone(q, chats.store, ChatsOk(200, Mine(chats.store, q.user)))
  /\ ChatsFrame

\* GET /:id
ChatsGet(header, id) ==
  /\ LET q == ChatsRequest("get", header, id, Absent, Absent)
         found == {c \in chats.store : Owned(c, id, q.user)}
     IN
     IF ~Guarded(q) THEN ChatsDone(q, chats.store, ChatsFail(401, "Unauthorized"))
     ELSE IF id = Malformed THEN ChatsDone(q, chats.store, ChatsFail(500, "Unable to load chat"))
     ELSE IF found = {} THEN ChatsDone(q, chats.store, ChatsFail(404, "Chat not found"))
     ELSE ChatsDone(q, chats.store, ChatsOk(200, found))
  /\ ChatsFrame

\* POST /
ChatsCreate(header, title, messages) ==
  /\ chats.made < MaxChats
  /\ LET q == ChatsRequest("create", header, 0, title, messages)
         made == [id |-> chats.made + 1, userId |-> q.user,
                  title |-> IF title.type = "undefined" THEN "New Chat" ELSE title.text,
                  messages |-> messages.items, updatedAt |-> now]
     IN
     IF ~Guarded(q) THEN ChatsDone(q, chats.store, ChatsFail(401, "Unauthorized"))
     ELSE IF ~ValidBody(title, messages) THEN ChatsDone(q, chats.store, ChatsFail(400, ""))
     ELSE ChatsDone(q, chats.store \cup {made}, ChatsOk(201, {made}))
  /\ ChatsFrame

\* PUT /:id
ChatsUpdate(header, id, title, messages) ==
  /\ LET q == ChatsRequest("update", header, id, title, messages)
         found == {c \in chats.store : Owned(c, id, q.user)}
         Updated(c) ==
           [c EXCEPT !.title = IF title.text # "" THEN title.text ELSE @,
                     !.messages = IF messages.type = "array" THEN messages.items ELSE @,
                     !.updatedAt = now]
     IN
     IF ~Guarded(q) THEN ChatsDone(q, chats.store, ChatsFail(401, "Unauthorized"))
     ELSE IF ~ValidBody(title, messages) THEN ChatsDone(q, chats.store, ChatsFail(400, ""))
     ELSE IF id = Malformed THEN ChatsDone(q, chats.store, ChatsFail(500, "Unable to update chat"))
     ELSE IF found = {} THEN ChatsDone(q, chats.store, ChatsFail(404, "Chat not found"))
     ELSE ChatsDone(q, (chats.store \ found) \cup {Updated(c) : c \in found},
                    ChatsOk(200, {Updated(c) : c \in found}))
  /\ ChatsFrame

\* DELETE /:id
ChatsDelete(header, id) ==
  /\ LET q == ChatsRequest("delete", header, id, Absent, Absent)
         found == {c \in chats.store : Owned(c, id, q.user)}
     IN
     IF ~Guarded(q) THEN ChatsDone(q, chats.store, ChatsFail(401, "Unauthorized"))
     ELSE IF id = Malformed THEN ChatsDone(q, chats.store, ChatsFail(500, "Unable to delete chat"))
     ELSE IF found = {} THEN ChatsDone(q, chats.store, ChatsFail(404, "Chat not found"))
     ELSE ChatsDone(q, chats.store \ found,
                    [NoChatResp EXCEPT !.status = 200, !.message = "Chat deleted"])
  /\ ChatsFrame

\* ============================ OTP router: handlers followed await by await ==
\* Two requests can be in flight at once; Node runs the code between two
\* awaits of a handler without interruption, and the store applies one
\* operation at a time.
Slots == {1, 2}

NoCall ==
  [pc |-> "idle", op |-> "", email |-> "", phone |-> "", uid |-> 0,
   seen |-> EmptyOtp, otp |-> EmptyOtp, code |-> "", status |-> 0,
   created |-> FALSE, n |-> 0]

NoSave == [by |-> 0, otp |-> EmptyOtp]

\* the number of requests started so far (bounded by MaxCalls)
Started == calls[1].n + calls[2].n

Unused(p) == calls[p].pc \in {"idle", "done"}

\* a request arrives on the lowest slot whose earlier request has been answered
Free(p) ==
  /\ Idle
  /\ Started < MaxCalls
  /\ Unused(p)
  /\ \A q \in Slots : q < p => ~Unused(q)

\* a handler in flight goes on past its await
At(p, label) == Idle /\ calls[p].pc = label

Respond(p, status) ==
  calls' = [calls EXCEPT ![p].pc = "done", ![p].status = status]

\* the variables the stepwise handlers never touch
StepFrame ==
  UNCHANGED <<variant, env, spent, issued, req, pre, resp, outbox, consumed, superseded,
              usedLinks, latestLink, olderLinks, hf, sse, chat, mw, page, chats>>

\* POST /signup up to the answer of User.findOne
StepSignupLookup(p, email, phone) ==
  /\ Free(p)
  /\ variant = "otp"
  /\ LET c == [NoCall EXCEPT !.op = "signup", !.email = email, !.phone = phone,
                             !.n = calls[p].n + 1]
     IN calls' = [calls EXCEPT ![p] =
          IF ExistsEmailOrPhone(email, phone)
            THEN [c EXCEPT !.pc = "done", !.status = 409]
            ELSE [c EXCEPT !.pc = "insert"]]
  /\ UNCHANGED <<users, saved, now, ticks>>
  /\ StepFrame

\* POST /signup: User.create against the unique indexes on email and phone;
\* a duplicate key makes it throw into the catch block
StepSignupInsert(p) ==
  /\ At(p, "insert")
  /\ IF ExistsEmailOrPhone(calls[p].email, calls[p].phone)
       THEN /\ Respond(p, 500)
            /\ UNCHANGED users
       ELSE /\ Len(users) < MaxUsers
            /\ users' = Append(users, NewUser(calls[p].email, calls[p].phone, GoodPassword))
            /\ calls' = [calls EXCEPT ![p].pc = "stamp", ![p].uid = Len(users) + 1,
                                      ![p].created = TRUE]
  /\ UNCHANGED <<saved, now, ticks>>
  /\ StepFrame

\* POST /request-otp up to the answer of User.findOne
StepRequestOtpFind(p, email) ==
  /\ Free(p)
  /\ variant = "otp"
  /\ LET id == FindByEmail(email)
         c == [NoCall EXCEPT !.op = "request-otp", !.email = email, !.n = calls[p].n + 1]
     IN calls' = [calls EXCEPT ![p] =
          IF id = 0
            THEN [c EXCEPT !.pc = "done", !.status = 404]
            ELSE [c EXCEPT !.pc = "check", !.uid = id, !.seen = users[id].otp]]
  /\ UNCHANGED <<users, saved, now, ticks>>
  /\ StepFrame

\* POST /request-otp: the cooldown test on the record as it was read
StepRequestOtpCheck(p) ==
  /\ At(p, "check")
  /\ IF Throttled(calls[p].seen, now)
       THEN Respond(p, 429)
       ELSE calls' = [calls EXCEPT ![p].pc = "stamp"]
  /\ UNCHANGED <<users, saved, now, ticks>>
  /\ StepFrame

\* setOtp after bcrypt.hash: the clock is read and user.otp assigned
StepSetOtpStamp(p) ==
  /\ At(p, "stamp")
  /\ \E code \in Codes :
       calls' = [calls EXCEPT ![p].pc = "save", ![p].code = code,
                              ![p].otp = NewOtp(code, now)]
  /\ UNCHANGED <<users, saved, now, ticks>>
  /\ StepFrame

\* setOtp: await user.save() reaches the store
StepSetOtpSave(p) ==
  /\ At(p, "save")
  /\ users' = SaveOtp(users, calls[p].uid, calls[p].otp, calls[p].seen)
  /\ saved' = [saved EXCEPT ![calls[p].uid] = [by |-> p, otp |-> calls[p].otp]]
  /\ calls' = [calls EXCEPT ![p].pc = "send"]
  /\ UNCHANGED <<now, ticks>>
  /\ StepFrame

\* setOtp: await sendOtpEmail, then the handler's answer
StepSetOtpSend(p) ==
  /\ At(p, "send")
  /\ \E mailOk \in BOOLEAN :
       Respond(p, IF ~mailOk THEN 500
                  ELSE IF calls[p].op = "signup" THEN 201 ELSE 200)
  /\ UNCHANGED <<users, saved, now, ticks>>
  /\ StepFrame

\* ========================================================= specification ==
InitWith(variants, envs) ==
  /\ variant \in variants
  /\ env \in envs
  /\ now = 1000
  /\ ticks = 0
  /\ users = <<>>
  /\ issued = {}
  /\ req = NoReq
  /\ pre = NoPre
  /\ resp = NoResp
  /\ outbox = <<>>
  /\ consumed = [i \in 1..(MaxUsers + 1) |-> ""]
  /\ superseded = [i \in 1..(MaxUsers + 1) |-> {}]
  /\ usedLinks = {}
  /\ latestLink = [i \in 1..(MaxUsers + 1) |-> NoToken]
  /\ olderLinks = {}
  /\ spent = NoSpent
  /\ calls = [p \in Slots |-> NoCall]
  /\ saved = [i \in 1..(MaxUsers + 1) |-> NoSave]
  /\ hf = NoHf
  /\ sse = NoSse
  /\ chat = NoChat
  /\ mw = NoMw
  /\ page = NoPage
  /\ chats = NoChats

ReqEmails == Emails \cup {BadEmail}
PasswordIds == {GoodPassword.id, OtherPassword.id}

OtpRouter ==
  \/ \E e \in ReqEmails, p \in Phones, pw \in Passwords : OtpSignup(e, p, pw)
  \/ \E e \in ReqEmails, pw \in PasswordIds : OtpLogin(e, pw)
  \/ \E e \in ReqEmails, c \in Codes : VerifyOtp(e, c)
  \/ \E e \in ReqEmails : OtpRequestOtp(e)

LinkRouter ==
  \/ \E e \in ReqEmails, p \in Phones, pw \in Passwords : LinkSignup(e, p, pw)
  \/ \E e \in ReqEmails, pw \in PasswordIds : LinkLogin(e, pw)
  \/ \E t \in Presentable : VerifyEmail(t)
  \/ \E e \in ReqEmails : RequestEmailVerify(e)
  \/ \E e \in ReqEmails : LinkRequestOtp(e)
  \/ \E t \in Presentable, b \in InterestBodies : Interests(t, b)

Sessions ==
  \/ \E t \in Presentable : Refresh(t) /\ UNCHANGED spent
  \/ \E t \in Presentable : Logout(t) /\ UNCHANGED spent
  \/ \E t \in Presentable : Me(t)

\* The OTP router with the clock steps its time tests depend on.
InitOtp == InitWith({"otp"}, Envs)
NextOtp == OtpRouter \/ EndRequest \/ \E d \in OtpDeltas : Tick(d)
SpecOtp == InitOtp /\ [][NextOtp]_vars

\* The link router with the clock steps its time tests depend on.
InitLink == InitWith({"link"}, Envs)
NextLink == LinkRouter \/ EndRequest \/ \E d \in LinkDeltas : Tick(d)
SpecLink == InitLink /\ [][NextLink]_vars

\* Either router, with the clock steps at which session tokens expire.
Init == InitWith({"otp", "link"}, Envs)
Next == OtpRouter \/ LinkRouter \/ Sessions \/ EndRequest \/ \E d \in SessionDeltas : Tick(d)
Spec == Init /\ [][Next]_vars

\* The OTP router with up to two requests in flight, their awaits interleaved.
RaceEnvs == {e \in Envs : e.access # "" /\ e.access # e.refresh}
\* the requests in flight are all about one address and one phone
RaceEmails == {"a@x.io"}
RacePhones == {"+100"}
\* one millisecond, and a time after which cooldown and code have run out
RaceDeltas == {1, OtpTtlMs}
InitRace == InitWith({"otp"}, RaceEnvs)
Steps ==
  \/ \E p \in Slots, e \in RaceEmails, ph \in RacePhones : StepSignupLookup(p, e, ph)
  \/ \E p \in Slots : StepSignupInsert(p)
  \/ \E p \in Slots, e \in RaceEmails : StepRequestOtpFind(p, e)
  \/ \E p \in Slots : StepRequestOtpCheck(p)
  \/ \E p \in Slots : StepSetOtpStamp(p)
  \/ \E p \in Slots : StepSetOtpSave(p)
  \/ \E p \in Slots : StepSetOtpSend(p)
NextRace ==
  \/ Steps
  \/ \E e \in RaceEmails, c \in Codes : VerifyOtp(e, c)
  \/ EndRequest
  \/ \E d \in RaceDeltas : Tick(d)
SpecRace == InitRace /\ [][NextRace]_vars

\* The life of a session in the OTP router: one account is created and verified, its tokens
\* are exchanged, logged out and presented again while the clock passes a second or the
\* refresh token's lifetime; the history of the refresh tokens is kept.
SessionDeltasOfLife == {1000, RefreshTtl * 1000}
InitSession == InitWith({"otp"}, RaceEnvs)
NextSession ==
  \/ \E e \in RaceEmails, p \in RacePhones : OtpSignup(e, p, GoodPassword)
  \/ \E e \in RaceEmails, c \in Codes : VerifyOtp(e, c)
  \/ \E t \in Presentable : RefreshTracked(t)
  \/ \E t \in Presentable : LogoutTracked(t)
  \/ \E t \in Presentable : Me(t)
  \/ EndRequest
  \/ \E d \in SessionDeltasOfLife : Tick(d)
SpecSession == InitSession /\ [][NextSession]_vars

\* The interests page alone, with every answer its two requests can get.
InitPage == InitWith({"link"}, RaceEnvs)
NextPage ==
  \/ \E stored \in BOOLEAN : PageOpen(stored)
  \/ \E value \in PresetInterests : PageToggle(value)
  \/ PageSubmit
  \/ \E ans \in InterestsAnswers \cup {Rejected} : PageInterestsAnswer(ans)
  \/ \E ans \in RefreshAnswers \cup {Rejected} : PageRefreshAnswer(ans)
SpecPage == InitPage /\ [][NextPage]_vars

\* The chats router: two users' access tokens, a token another key signed and no token,
\* in production with the secret set and in development without it.
ChatTokens ==
  {JwtSign("none", u, "a@x.io", GuardAccessSecret, AccessTtl, 1000) : u \in 1..2}
  \cup {JwtSign("none", 1, "a@x.io", "kr", AccessTtl, 1000), NoToken}
ChatHeaders == {[scheme |-> "Bearer ", token |-> t] : t \in ChatTokens}
ChatIds == 0..MaxChats
Bodies ==
  { [title |-> Absent, messages |-> Absent], [title |-> Str("t"), messages |-> Absent],
    [title |-> Absent, messages |-> Arr(<<"hi">>)], [title |-> Num, messages |-> Absent],
    [title |-> Absent, messages |-> Str("hi")] }
ChatEnvs == {e \in Envs : e.access = "ka" \/ ~e.isProd}
InitChats == InitWith({"otp"}, ChatEnvs)
NextChats ==
  \/ \E h \in ChatHeaders : ChatsList(h)
  \/ \E h \in ChatHeaders, id \in ChatIds : ChatsGet(h, id)
  \/ \E h \in ChatHeaders, b \in Bodies : ChatsCreate(h, b.title, b.messages)
  \/ \E h \in ChatHeaders, id \in ChatIds, b \in Bodies :
       ChatsUpdate(h, id, b.title, b.messages)
  \/ \E h \in ChatHeaders, id \in ChatIds : ChatsDelete(h, id)
SpecChats == InitChats /\ [][NextChats]_vars

\* The stream relays: one request to /api/chat or to the passthrough handler at a time.
InitRelay == InitWith({"otp"}, RaceEnvs)
ChatRoute ==
  \/ \E key \in Credentials, body \in ChatBodies : ChatRequest(key, body)
  \/ \E ok \in BOOLEAN : ChatUpstreamOpen(ok)
  \/ \E text \in ChatTexts : ChatChunk(text)
  \/ ChatEnd
  \/ ChatFail
  \/ ChatDisconnect
Passthrough ==
  \/ \E token \in Credentials, body \in HfBodies, upstream \in HfUpstreams :
       HfHandler(token, body, upstream)
  \/ HfPull
  \/ HfRead
  \/ HfResume
  \/ HfConsume
  \/ HfCancel
  \/ SseTimer
  \/ SseCancel
NextRelay == ChatRoute \/ Passthrough
SpecRelay == InitRelay /\ [][NextRelay]_vars

\* The passthrough relay of an upstream event body that arrives to its end, with a consumer
\* that reads frame after frame and never cancels; every step that can be taken is taken.
Drain ==
  \/ \E token \in Credentials, body \in HfBodies : HfHandler(token, body, "events")
  \/ HfPull
  \/ HfDeliver
  \/ HfResume
  \/ HfConsume
SpecDrain == InitRelay /\ [][Drain]_vars /\ WF_vars(Drain)

\* The /api/chat route alone; a handler that can take its next step does take it.
SpecChat == InitRelay /\ [][ChatRoute]_vars /\ WF_vars(ChatRoute)

\* The access guards on their own: any header a client can send, at any of the clock
\* readings at which the tokens of the first second have or have not run out.
GuardKeys == {"ka", "kr", "k", "dev_access_secret"}
GuardTokens ==
  {JwtSign(typ, 1, "a@x.io", key, ttl, 1000) :
     typ \in {"none", "refresh"}, key \in GuardKeys, ttl \in {AccessTtl, RefreshTtl}}
  \cup {NoToken, Garbage}
Headers == {[scheme |-> s, token |-> t] : s \in Schemes, t \in GuardTokens} \cup {NoHeader}
InitGuard == InitWith({"otp"}, Envs)
NextGuard ==
  \/ \E h \in Headers : GuardRequire(h)
  \/ \E h \in Headers : GuardOptional(h)
  \/ GuardEnd
  \/ \E d \in SessionDeltas : Tick(d)
SpecGuard == InitGuard /\ [][NextGuard]_vars

\* =============================================================== claims ==
\* the response carries an access token or sets the refreshToken cookie
CarriesSession ==
  \/ resp.accessToken # NoToken
  \/ resp.devAccessToken # NoToken
  \/ resp.cookieOp = "set"

SessionRoutes == {"login", "verify-otp", "verify-email", "refresh"}

\* C1: a response carries an access token or sets the refreshToken cookie
\* only on login, verify-otp, verify-email or refresh, and only for a user
\* whose emailVerified is true when the response is sent; the tokens are that
\* user's; a signup response never carries a token or sets the cookie.
C1_TokensOnlyForVerified ==
  /\ CarriesSession =>
       /\ resp.route \in SessionRoutes
       /\ resp.status = 200
       /\ resp.userId \in Ids
       /\ users[resp.userId].emailVerified
       /\ resp.accessToken.sub = resp.userId
       /\ resp.cookieOp = "set" /\ resp.cookieVal.sub = resp.userId
  /\ resp.route = "signup" => ~CarriesSession

\* a signup has been answered 201 and, later, a refresh has set a new session
C1_Witness ==
  /\ resp.route = "refresh" /\ resp.status = 200 /\ CarriesSession
  /\ users[resp.userId].emailVerified

\* C2: once verify-otp has accepted a code, presenting that same code again
\* (no new challenge issued in between) is answered 400 "No active
\* verification code" without tokens or cookie.
C2_ConsumedCodeRejected ==
  (resp.route = "verify-otp" /\ pre.uid \in Ids /\ pre.consumed # ""
     /\ req.code = pre.consumed)
  => /\ resp.status = 400
     /\ resp.error = "No active verification code"
     /\ ~CarriesSession
     /\ users[pre.uid] = pre.user

\* the accepted code was presented a second time and refused
C2_Witness ==
  /\ resp.route = "verify-otp" /\ pre.uid \in Ids /\ pre.consumed # ""
  /\ req.code = pre.consumed
  /\ pre.user.emailVerified
  /\ resp.status = 400

\* C3: a verification link that verify-email has accepted once is refused
\* when it is presented again: no second 200, no second session.
C3_LinkSingleUse ==
  (resp.route = "verify-email" /\ pre.used)
  => /\ resp.status = 400
     /\ ~CarriesSession

\* verify-email is answering for a link of a user who was unverified when
\* the request arrived
LinkOfUnverified ==
  /\ resp.route = "verify-email"
  /\ pre.uid \in Ids /\ req.token.sub = pre.uid
  /\ req.token.typ = "email-verify"
  /\ ~pre.user.emailVerified

\* the answer 400 'superseded' that leaves the user unverified
RefusedAsSuperseded ==
  /\ resp.status = 400 /\ resp.error = SupersededError
  /\ ~CarriesSession
  /\ users[pre.uid] = pre.user

CorrectCode ==
  /\ resp.route = "verify-otp"
  /\ pre.uid \in Ids
  /\ pre.user.otp.codeHash # NoHash
  /\ BcryptCompare(req.code, pre.user.otp.codeHash)

\* C5: verify-otp with the correct code at a time later than the challenge's
\* expiresAt is answered 400 'Verification code expired', changes nothing in
\* the user record (emailVerified is not set) and issues no tokens.
C5_ExpiredCodeRejected ==
  (CorrectCode /\ now > pre.user.otp.expiresAt)
  => /\ resp.status = 400
     /\ resp.error = "Verification code expired"
     /\ users[pre.uid] = pre.user
     /\ ~CarriesSession

\* the correct code was presented one millisecond after expiresAt and refused
C5_Witness ==
  /\ CorrectCode /\ now = pre.user.otp.expiresAt + 1
  /\ ~pre.user.emailVerified
  /\ resp.status = 400 /\ resp.error = "Verification code expired"

\* verify-otp is answering for a code that a successful resend has overwritten
PriorCode ==
  /\ resp.route = "verify-otp"
  /\ pre.uid \in Ids
  /\ req.code \in superseded[pre.uid]

\* the code was refused: 400, nothing changed, no tokens
CodeRefused ==
  /\ resp.status = 400
  /\ users[pre.uid] = pre.user
  /\ ~CarriesSession

\* C6 as stated: after a successful resend, verify-otp with the code of the
\* previous challenge is refused, whatever the old and the new code are.
C6_PriorCodeAlwaysRefused == PriorCode => CodeRefused

\* C6: after a successful resend, verify-otp with the code of the previous
\* challenge is refused whenever that code differs from the code of the
\* challenge now stored (a newly generated code can equal an earlier one).
C6_PriorCodeRefusedWhenDifferent ==
  (PriorCode /\ ~BcryptCompare(req.code, pre.user.otp.codeHash)) => CodeRefused

\* the overwritten code was presented against a live challenge with another code
C6_Witness ==
  /\ PriorCode
  /\ pre.user.otp.codeHash # NoHash
  /\ ~BcryptCompare(req.code, pre.user.otp.codeHash)
  /\ resp.status = 400 /\ resp.error = "Invalid verification code"

\* C7: request-otp made strictly before the stored resendAvailableAt is
\* answered 429 with a remaining time of 1 to 45 whole seconds, sends no
\* e-mail and leaves the stored challenge unchanged; made at or after
\* resendAvailableAt it overwrites the stored challenge with a new one.
C7_ResendCooldown ==
  (resp.route = "request-otp" /\ pre.uid \in Ids) =>
    IF pre.user.otp.resendAvailableAt # NoDate /\ pre.now < pre.user.otp.resendAvailableAt
      THEN /\ resp.status = 429
           /\ resp.waitSecs \in 1..45
           /\ outbox = <<>>
           /\ users[pre.uid] = pre.user
      ELSE users[pre.uid].otp \in {NewOtp(c, pre.now) : c \in Codes}

\* login is answering correct credentials of a user who was unverified
UnverifiedLogin ==
  /\ resp.route = "login"
  /\ pre.uid \in Ids
  /\ BcryptCompare(req.password, pre.user.passwordHash)
  /\ ~pre.user.emailVerified

\* exactly one issuance: one e-mail to the user, carrying the challenge that
\* overwrote the stored one (the code, or the link with its issuance marker)
IssuedOnce ==
  /\ Len(outbox) = 1
  /\ outbox[1].to = pre.user.email
  /\ IF variant = "otp"
       THEN /\ outbox[1].code \in Codes
            /\ users[pre.uid] = [pre.user EXCEPT !.otp = NewOtp(outbox[1].code, pre.now)]
       ELSE /\ outbox[1].link = EmailVerifyTokenFor(pre.uid, pre.user.email, pre.now)
            /\ latestLink[pre.uid] = outbox[1].link
            /\ \E skew \in Skews :
                 users[pre.uid] = [pre.user EXCEPT !.emailVerifyIssuedAt = pre.now + skew]

\* C8 as stated: a login with correct credentials for an unverified user is
\* always answered 403 with requiresVerification, without access token or
\* cookie, and causes exactly one issuance.
C8_UnverifiedLoginAlways403 ==
  UnverifiedLogin =>
    /\ resp.status = 403 /\ resp.requiresVerification
    /\ ~CarriesSession /\ resp.cookieOp = "none"
    /\ IssuedOnce

\* C8: a login with correct credentials for an unverified user never carries
\* an access token nor touches the cookie; it is answered 403 with
\* requiresVerification after exactly one issuance when the challenge goes
\* out, and 500 with no e-mail when issuing the challenge throws (the e-mail
\* cannot be sent, or the link router has no email-verify secret).
C8_UnverifiedLoginNoSession ==
  UnverifiedLogin =>
    /\ ~CarriesSession /\ resp.cookieOp = "none"
    /\ resp.status \in {403, 500}
    /\ resp.status = 403 => resp.requiresVerification /\ IssuedOnce
    /\ resp.status = 500 => ~resp.requiresVerification /\ outbox = <<>>

\* an unverified user logged in and was sent to verification with one e-mail
C8_Witness ==
  /\ UnverifiedLogin
  /\ resp.status = 403 /\ resp.requiresVerification
  /\ Len(outbox) = 1

\* C9: /refresh answers 401 to an access or email-verify token in the
\* cookie, the access guard answers 401 to a refresh or email-verify token
\* as Bearer, and verify-email refuses an access or refresh token, under
\* every configuration of the secrets.
C9_TokenKindsNotInterchangeable ==
  /\ (resp.route = "refresh" /\ req.cookie.typ \in {"none", "email-verify"})
     => resp.status = 401
  /\ (resp.route = "me" /\ req.bearer.typ \in {"refresh", "email-verify"})
     => resp.status = 401
  /\ (resp.route = "verify-email" /\ req.token.typ \in {"none", "refresh"})
     => resp.status = 400 /\ ~CarriesSession

\* C10: whenever /refresh answers 401 to a request that presented a cookie,
\* the response clears the refreshToken cookie.
C10_Refresh401ClearsCookie ==
  (resp.route = "refresh" /\ resp.status = 401 /\ req.cookie # NoToken)
  => resp.cookieOp = "clear"

\* /refresh is answering a cookie that holds a valid, unexpired refresh
\* token of a stored user
ValidRefresh ==
  /\ resp.route = "refresh"
  /\ req.cookie.typ = "refresh"
  /\ RouterRefreshSecret # ""
  /\ JwtVerify(req.cookie, RouterRefreshSecret, now)
  /\ req.cookie.sub \in Ids

\* the response is 200 with an access token and sets a refresh cookie
NewSession ==
  /\ resp.status = 200
  /\ resp.accessToken # NoToken /\ resp.accessToken.sub = req.cookie.sub
  /\ resp.cookieOp = "set" /\ resp.cookieVal.typ = "refresh"

C12_OneSignupWins ==
  /\ \A i, j \in Ids :
       i # j => users[i].email # users[j].email /\ users[i].phone # users[j].phone
  /\ \A p \in Slots :
       (calls[p].op = "signup" /\ calls[p].pc = "done")
       => IF calls[p].created THEN calls[p].status = 201 ELSE calls[p].status = 409

\* the request on slot p has written a challenge of its own to the store
Issued(p) == calls[p].pc \in {"send", "done"} /\ calls[p].otp # EmptyOtp

\* the instant at which slot p's challenge was stamped
StampedAt(p) == calls[p].otp.resendAvailableAt - ResendCooldownMs

\* C15: of two request-otp requests for the same (unverified) user that are
\* in flight together, at most one issues a new challenge within one
\* 45-second cooldown window: two challenges issued by them are stamped at
\* least 45 seconds apart.
C15_ThrottleUnderConcurrency ==
  \A p, q \in Slots :
    (/\ p # q
     /\ calls[p].op = "request-otp" /\ calls[q].op = "request-otp"
     /\ calls[p].uid = calls[q].uid
     /\ Issued(p) /\ Issued(q)
     /\ ~users[calls[p].uid].emailVerified
     /\ StampedAt(p) <= StampedAt(q))
    => StampedAt(q) - StampedAt(p) >= ResendCooldownMs

\* C16: the record of a user holds one challenge, the one written by the
\* latest save (until verify-otp consumes it), also when issuances are in
\* flight together, and verify-otp accepts no code but that challenge's.
C16_LaterSaveWins ==
  \A id \in Ids :
    /\ saved[id].by # 0 => users[id].otp \in {saved[id].otp, EmptyOtp}
    /\ (resp.route = "verify-otp" /\ resp.status = 200 /\ pre.uid = id)
       => /\ saved[id].by # 0
          /\ pre.user.otp = saved[id].otp
          /\ BcryptCompare(req.code, saved[id].otp.codeHash)

\* two issuances were in flight together (the one saved last was stamped no
\* later than the other), both are through, and verify-otp has accepted the
\* code saved last, which is not the other one's
C16_Witness ==
  /\ resp.route = "verify-otp" /\ resp.status = 200 /\ pre.uid \in Ids
  /\ \E p, q \in Slots :
       /\ p # q
       /\ saved[pre.uid].by = p
       /\ Issued(p) /\ Issued(q)
       /\ calls[p].uid = pre.uid /\ calls[q].uid = pre.uid
       /\ calls[p].otp = saved[pre.uid].otp
       /\ calls[p].code = req.code /\ calls[q].code # req.code
       /\ StampedAt(p) <= StampedAt(q)

\* the step is a login for a well-formed address that is not registered, or
\* that is registered with another password
FailedLookupOrPassword ==
  /\ resp' # resp
  /\ resp'.route = "login"
  /\ IsEmail(req'.email)
  /\ \/ FindByEmail(req'.email) = 0
     \/ ~BcryptCompare(req'.password, users[FindByEmail(req'.email)].passwordHash)

\* C13: a login for an unknown address and a login with a wrong password
\* get the same response, 401 'Invalid credentials' with nothing else in it,
\* send no e-mail and change neither the store nor the tokens handed out.
C13_LoginFailuresAlike ==
  [][FailedLookupOrPassword =>
       /\ resp' = Fail("login", 401, "Invalid credentials")
       /\ outbox' = <<>>
       /\ UNCHANGED <<users, issued, now, consumed, superseded, usedLinks,
                      latestLink, olderLinks>>]_vars

\* a registered address was tried with a wrong password and answered 401
C13_Witness ==
  /\ resp.route = "login" /\ resp.status = 401
  /\ pre.uid \in Ids
  /\ ~BcryptCompare(req.password, pre.user.passwordHash)

VerificationRoutes ==
  {"signup", "login", "request-email-verify", "request-otp", "verify-email"}

\* the token fields of a response
ResponseTokens == {resp.devLink, resp.accessToken, resp.devAccessToken, resp.cookieVal}

\* C14: in production no response of signup, login, request-email-verify,
\* request-otp or verify-email has a devLink, nor carries a verification
\* token in any other field.
C14_NoDevLinkInProduction ==
  (env.isProd /\ resp.route \in VerificationRoutes)
  => /\ resp.devLink = NoToken
     /\ \A t \in ResponseTokens : t.typ # "email-verify"

\* in production a link was mailed and the response does not show it
C14_Witness ==
  /\ env.isProd /\ resp.route \in VerificationRoutes
  /\ Len(outbox) = 1 /\ outbox[1].link # NoToken
  /\ resp.devLink = NoToken

\* the contents of the frames of a sequence, joined in order
RECURSIVE Joined(_)
Joined(frames) ==
  IF frames = <<>> THEN <<>> ELSE Head(frames).content \o Joined(Tail(frames))

\* ceil(n / chunkSize)
FramesFor(n) == (n + chunkSize - 1) \div chunkSize

\* C17: when streamTextAsSSE has closed its stream for a text of n characters, it has
\* emitted ceil(n/80) content frames of 80 characters each, except that the last holds
\* the remainder, then one completion marker and nothing else; the frame contents joined
\* in order are the text; for n = 0 the marker is the only frame. Until then the frames
\* emitted are content frames whose contents joined are the text read so far.
C17_TextInFramesOf80 ==
  LET n == Len(sse.text)
      k == FramesFor(n)
  IN  /\ sse.state = "closed" =>
           /\ Len(sse.out) = k + 1
           /\ sse.out[k + 1] = DoneFrame
           /\ \A i \in 1..k :
                /\ sse.out[i].kind = "content"
                /\ Len(sse.out[i].content) = IF i < k THEN 80 ELSE n - 80 * (k - 1)
           /\ Joined(SubSeq(sse.out, 1, k)) = sse.text
           /\ sse.closes = 1
           /\ ~sse.timer
      /\ sse.state = "readable" =>
           /\ \A i \in 1..Len(sse.out) : sse.out[i].kind = "content"
           /\ Joined(sse.out) = SubSeq(sse.text, 1, sse.index)

C17_Witness ==
  /\ sse.state = "closed"
  /\ Len(sse.text) = 200
  /\ Len(sse.out) = 4
  /\ Len(sse.out[1].content) = 80
  /\ Len(sse.out[2].content) = 80
  /\ Len(sse.out[3].content) = 40
  /\ sse.out[4] = DoneFrame

\* C18: a request that finds its upstream credential unset (GEMINI_API_KEY in /api/chat,
\* VITE_HF_TOKEN in the passthrough handler) is answered by one 500 JSON response; no
\* upstream call is made, no event-stream header is set, no stream is opened and no frame
\* is written.
C18_MissingCredentialIs500 ==
  /\ (chat.pc # "idle" /\ chat.key = "") =>
       /\ chat.pc = "returned"
       /\ chat.status = 500
       /\ chat.ctype = "application/json"
       /\ chat.bodies = 1
       /\ chat.ended
       /\ chat.calls = 0
       /\ chat.frames = <<>>
  /\ (hf.pc # "idle" /\ hf.token = "") =>
       /\ hf.pc = "returned"
       /\ hf.status = 500
       /\ hf.ctype = "application/json"
       /\ hf.fetches = 0
       /\ hf.state = "none"
       /\ hf.reads = 0
       /\ hf.out = <<>>
       /\ sse.state = "none"
       /\ sse.out = <<>>

C18_Witness ==
  /\ chat.pc = "returned"
  /\ chat.key = ""
  /\ chat.status = 500
  /\ hf.pc = "returned"
  /\ hf.token = ""
  /\ hf.status = 500

\* the upstream of /api/chat failed: sendMessageStream rejected or the stream threw
UpstreamFailed == chat.failed /\ chat.calls = 1

\* C19: in /api/chat, an upstream failure before any frame was written is answered by one
\* 500 error response without frames; an upstream failure after at least one frame was
\* written sends no error status and the response is eventually ended.
C19_FailureEndsResponse ==
  /\ [](UpstreamFailed /\ chat.frames = <<>> =>
          chat.status = 500 /\ chat.bodies = 1 /\ chat.ended)
  /\ [](UpstreamFailed /\ chat.frames # <<>> => chat.status = 200 /\ chat.bodies = 0)
  /\ ((UpstreamFailed /\ chat.frames # <<>>) ~> chat.ended)

\* the part of C19 that the route keeps: the answers to a failure before and after the
\* first frame
C19_FailureStatus ==
  /\ UpstreamFailed /\ chat.frames = <<>> =>
       chat.status = 500 /\ chat.bodies = 1 /\ chat.ended
  /\ UpstreamFailed /\ chat.frames # <<>> => chat.status = 200 /\ chat.bodies = 0

\* a response whose handler has returned after a failure, frames written, never ended
C19_LeftOpen ==
  /\ UpstreamFailed
  /\ chat.pc = "returned"
  /\ chat.frames # <<>>
  /\ ~chat.ended

\* C20: once the consumer has cancelled the stream of transformHFStream, the upstream
\* reader has been cancelled, no read is outstanding or issued afterwards, and the frames
\* enqueued are those enqueued before the cancel, also when a read was in flight.
C20_CancelStopsRelay ==
  hf.state = "cancelled" =>
    /\ hf.readerCancelled
    /\ hf.pending # "wait"
    /\ hf.reads = hf.readsAtCancel
    /\ Len(hf.out) = hf.outAtCancel

\* cancelled while a read that brought a whole content event was in flight; pull has resumed
C20_Witness ==
  /\ hf.state = "cancelled"
  /\ hf.pending = "none"
  /\ hf.reads >= 1
  /\ hf.buffer = <<"a", "b", "N", "N">>
  /\ hf.out = <<>>

\* C21: once the client of /api/chat has disconnected, the handler takes no further chunk
\* from the upstream stream and calls res.write for no further frame.
C21_DisconnectStopsChat ==
  chat.disconnected =>
    /\ chat.pulls = chat.pullsAtDisconnect
    /\ Len(chat.frames) = chat.framesAtDisconnect

\* the header of the guarded request carries a token signed with the access secret that has
\* not expired at the time of the check
ValidBearer ==
  /\ mw.header.scheme = "Bearer "
  /\ GuardAccessSecret # ""
  /\ mw.header.token \notin {NoToken, Garbage}
  /\ mw.header.token.key = GuardAccessSecret
  /\ mw.at \div 1000 < mw.header.token.exp

\* C22: requireAuth calls next, once, exactly when the Authorization header is "Bearer "
\* followed by an unexpired token signed with the access secret, and has then set req.user
\* to the token's sub and email; for every other header, or with the secret unset, it
\* answers 401, does not call next and leaves req.user unset.
C22_RequireAuthGate ==
  mw.guard = "require" =>
    IF ValidBearer
    THEN /\ mw.nexts = 1
         /\ mw.status = 0
         /\ mw.user = [id |-> mw.header.token.sub, email |-> mw.header.token.email]
    ELSE /\ mw.nexts = 0
         /\ mw.status = 401
         /\ mw.user = NoReqUser

\* a valid bearer let through after the clock has moved, with the claims attached
C22_Witness ==
  /\ mw.guard = "require"
  /\ ValidBearer
  /\ mw.nexts = 1
  /\ mw.user.id = 1
  /\ mw.at > 1000

\* C23: optionalAuth calls next exactly once for every request and sends no response; it
\* sets req.user exactly when the header carries an unexpired token signed with the access
\* secret, and leaves it unset otherwise.
C23_OptionalAuthPasses ==
  mw.guard = "optional" =>
    /\ mw.nexts = 1
    /\ mw.status = 0
    /\ mw.user = IF ValidBearer
                 THEN [id |-> mw.header.token.sub, email |-> mw.header.token.email]
                 ELSE NoReqUser

\* an expired token signed with the right secret went through without an identity
C23_Witness ==
  /\ mw.guard = "optional"
  /\ mw.header.scheme = "Bearer "
  /\ mw.header.token \notin {NoToken, Garbage}
  /\ mw.header.token.key = GuardAccessSecret
  /\ mw.at \div 1000 >= mw.header.token.exp
  /\ mw.nexts = 1
  /\ mw.user = NoReqUser

\* a step that answers a logout request
LogoutStep == resp' # resp /\ resp'.route = "logout"

\* C24: every logout, whatever cookie the request carries, is answered 200 'Logged out'
\* with the refreshToken cookie cleared and nothing else; it changes no user record, no
\* token and nothing else the server keeps, so a second logout finds the same state and
\* gives the same answer as the first.
C24_LogoutAlwaysClears ==
  [][LogoutStep =>
       /\ resp'.status = 200
       /\ resp'.cookieOp = "clear"
       /\ resp' = [NoResp EXCEPT !.route = "logout", !.status = 200,
                                 !.message = "Logged out", !.cookieOp = "clear"]
       /\ outbox' = <<>>
       /\ UNCHANGED <<users, issued, now, consumed, superseded, usedLinks, latestLink,
                      olderLinks>>]_vars

\* a logout that came with a refresh token this server would still accept
C24_Witness ==
  /\ resp.route = "logout"
  /\ resp.status = 200
  /\ resp.cookieOp = "clear"
  /\ req.cookie.typ = "refresh"
  /\ RouterRefreshSecret # ""
  /\ JwtVerify(req.cookie, RouterRefreshSecret, now)
  /\ FindById(req.cookie.sub) # 0

\* a step that answers a signup whose password has no digit, has no symbol or is shorter
\* than 8 characters
WeakPasswordSignup ==
  /\ resp' # resp
  /\ resp'.route = "signup"
  /\ req'.password \in {NoDigitPassword.id, NoSymbolPassword.id, ShortPassword.id}

\* C25: a signup whose password lacks a digit, lacks a symbol or is shorter than 8
\* characters is answered 400 with the validation errors and nothing else happens: no
\* record is created or changed, no challenge or link is issued, no e-mail is sent; this
\* holds also when the address is already registered, so the lookup has not run.
C25_WeakPasswordRejectedFirst ==
  [][WeakPasswordSignup =>
       /\ resp' = Fail("signup", 400, "validation")
       /\ outbox' = <<>>
       /\ UNCHANGED <<users, issued, now, consumed, superseded, usedLinks, latestLink,
                      olderLinks>>]_vars

\* a weak password sent with an address that is already registered is answered 400, not 409
C25_Witness ==
  /\ resp.route = "signup"
  /\ resp.status = 400
  /\ req.password = NoSymbolPassword.id
  /\ FindByEmail(req.email) # 0
  /\ outbox = <<>>

\* a resend request of the link router for a user whose previous link was issued less
\* than the cooldown (45 s) before the request
EarlyLinkResend ==
  /\ variant = "link"
  /\ resp.route \in {"request-email-verify", "request-otp"}
  /\ pre.uid # 0
  /\ ~pre.user.emailVerified
  /\ pre.user.emailVerifyIssuedAt # NoDate
  /\ pre.now - pre.user.emailVerifyIssuedAt < ResendCooldownMs

\* C26: in the link router a resend request (request-email-verify or the legacy request-otp)
\* that comes less than 45 seconds after the user's previous link was issued is answered
\* 429 and issues no new link.
C26_LinkResendThrottled ==
  EarlyLinkResend =>
    /\ resp.status = 429
    /\ outbox = <<>>
    /\ users[pre.uid].emailVerifyIssuedAt = pre.user.emailVerifyIssuedAt

\* a step that answers POST /interests
InterestsStep == resp' # resp /\ resp'.route = "interests"

\* the request's bearer token is signed with the access secret and has not expired
BearerValid ==
  /\ req'.bearer \notin {NoToken, Garbage}
  /\ GuardAccessSecret # ""
  /\ req'.bearer.key = GuardAccessSecret
  /\ now \div 1000 < req'.bearer.exp

\* the entries of a list after trimming, those that are left empty dropped, in their order
RECURSIVE TrimmedNonEmpty(_)
TrimmedNonEmpty(items) ==
  IF items = <<>> THEN <<>>
  ELSE LET first == TrimSpaces(Head(items))
       IN  (IF first = <<>> THEN <<>> ELSE <<first>>) \o TrimmedNonEmpty(Tail(items))

PresentsSupersededLink ==
  /\ resp.route = "verify-email"
  /\ pre.uid \in Ids /\ req.token.sub = pre.uid
  /\ req.token.typ = "email-verify"
  /\ req.token \in olderLinks
  /\ latestLink[pre.uid].iat >= req.token.iat + 2
  /\ JwtVerify(req.token, EmailVerifySecret, pre.now)

\* C29: once link B has been issued after link A for a user, every later verify-email with
\* A, while A is unexpired, is refused with 400 and gives no session, also after B has
\* been accepted.
C29_SupersededNeverAccepted ==
  PresentsSupersededLink => (resp.status = 400 /\ ~CarriesSession)

\* what the route keeps of C29: the superseded link is refused as long as the user has not
\* been verified
C29_RefusedWhileUnverified ==
  (PresentsSupersededLink /\ ~pre.user.emailVerified) =>
    (resp.status = 400 /\ ~CarriesSession /\ users[pre.uid] = pre.user)

\* link A is accepted after the later link B was accepted
C29_AcceptedAfterConsumption ==
  /\ PresentsSupersededLink
  /\ latestLink[pre.uid] \in usedLinks
  /\ pre.user.emailVerified
  /\ resp.status = 200
  /\ CarriesSession

\* the record holds a verification challenge: an OTP hash or expiry, or a link marker
HoldsChallenge(user) ==
  \/ user.otp.codeHash # NoHash
  \/ user.otp.expiresAt # NoDate
  \/ user.emailVerifyIssuedAt # NoDate

\* C30: in every reachable state a user whose emailVerified flag is true holds no
\* verification challenge: no stored OTP hash or expiry and no emailVerifyIssuedAt marker.
C30_VerifiedHoldsNoChallenge ==
  \A i \in DOMAIN users : users[i].emailVerified => ~HoldsChallenge(users[i])

\* ---------------------------------------------------------------- C31 ----
\* A verification request that was answered with something other than 200.
FailedVerification ==
  /\ req.route \in {"verify-otp", "verify-email"}
  /\ resp # NoResp
  /\ resp.status # 200

\* C31: every verify-otp or verify-email request that does not respond 200
\* leaves the user record as it found it (emailVerified, stored challenge,
\* issuance marker), sets no cookie and returns no token.
C31_FailedVerifyChangesNothing ==
  FailedVerification =>
    /\ UserOf(pre.uid) = pre.user
    /\ resp.cookieOp # "set"
    /\ resp.accessToken = NoToken
    /\ resp.devAccessToken = NoToken

\* The part of C31 about a mismatched code: the refusal leaves the stored
\* challenge in place.
C31_MismatchKeepsChallenge ==
  (FailedVerification /\ resp.error = "Invalid verification code") =>
    /\ UserOf(pre.uid) = pre.user
    /\ pre.user.otp.codeHash # NoHash

\* verify-otp answered 500 although it had already stored the verification.
C31_VerifiedThen500 ==
  /\ req.route = "verify-otp"
  /\ resp.status = 500
  /\ ~pre.user.emailVerified
  /\ UserOf(pre.uid).emailVerified
  /\ UserOf(pre.uid).otp = EmptyOtp

\* ---------------------------------------------------------------- C32 ----
\* The step of a signup request that is answered with an error status.
FailedSignupStep ==
  /\ Idle
  /\ req'.route = "signup"
  /\ resp'.status \in {400, 409, 500}

\* C32: a signup request that responds with an error status (400, 409 or
\* 500) has created no user record, so the e-mail and phone it named are as
\* free afterwards as they were before.
C32_FailedSignupCreatesNothing == [][FailedSignupStep => users' = users]_vars

\* A signup answered 500 whose record is stored: the address is taken.
C32_FailedSignupLeftRecord ==
  /\ req.route = "signup"
  /\ resp.status = 500
  /\ FindByEmail(req.email) # 0
  /\ outbox = <<>>

\* The refusals before the insert (validation, duplicate) create nothing.
C32_RefusedSignupCreatesNothing ==
  [][(FailedSignupStep /\ resp'.status \in {400, 409}) => users' = users]_vars

\* ---------------------------------------------------------------- C33 ----
\* The outgoing stream of the passthrough relay over an upstream event body.
Relaying == hf.ctype = "text/event-stream" /\ hf.state # "none"

Markers(frames) == Cardinality({i \in 1..Len(frames) : frames[i] = DoneFrame})

C33_MarkerSupplied ==
  /\ Relaying
  /\ hf.state = "closed"
  /\ hf.src = <<>>
  /\ hf.out = <<Content(<<"a", "b">>), DoneFrame>>

\* ---------------------------------------------------------------- C34 ----
\* The relay has closed the outgoing stream behind the completion marker.
Completed ==
  /\ hf.state = "closed"
  /\ hf.out # <<>>
  /\ hf.out[Len(hf.out)] = DoneFrame

\* C34: when the upstream event body arrives to its end, however it is split
\* into reads and whatever its events hold, and the consumer keeps reading,
\* the passthrough relay eventually enqueues the completion marker and closes
\* the outgoing stream.
C34_RelayCompletes == Relaying ~> Completed

\* The relay at rest with the consumer's read request waiting: pull returned
\* without enqueueing a frame and is not called again.
C34_Stalled ==
  /\ Relaying
  /\ hf.state = "readable"
  /\ hf.want
  /\ ~Pulling(hf)
  /\ ~hf.pullAgain

\* The relay stalled on a body of one content event: two reads brought the
\* two halves of its text, the blank line that ends it was never read.
C34_StalledOnSplitFrame ==
  /\ C34_Stalled
  /\ hf.reads = 2
  /\ hf.buffer \o hf.src = <<"a", "b", "N", "N">>
  /\ hf.out = <<>>

\* ---------------------------------------------------------------- C35 ----
\* The events of an upstream body, read as a whole: the texts between blank
\* lines, the last one running to the end of the body.
RECURSIVE EventsOf(_)
EventsOf(bytes) ==
  LET idx == IndexOfBlankLine(bytes) IN
  IF idx = 0 THEN <<bytes>>
  ELSE <<SubSeq(bytes, 1, idx - 1)>> \o EventsOf(SubSeq(bytes, idx + 2, Len(bytes)))

\* The content frames due for a sequence of events: one for each event with
\* a content field that is not empty, up to the first [DONE] event.
RECURSIVE ContentsOf(_)
ContentsOf(events) ==
  IF events = <<>> THEN <<>>
  ELSE LET text == Normalized(Head(events)) IN
       IF text = <<"D">> THEN <<>>
       ELSE IF text = <<"a", "b">> THEN <<Content(text)>> \o ContentsOf(Tail(events))
       ELSE ContentsOf(Tail(events))

ContentFrames(frames) == SelectSeq(frames, LAMBDA f : f # DoneFrame)

IsPrefix(s, t) == Len(s) <= Len(t) /\ s = SubSeq(t, 1, Len(s))

\* The relay has nothing left to do: the outgoing stream is closed, or the
\* consumer's read request waits and no pull is running or due.
Settled ==
  /\ Relaying
  /\ \/ hf.state = "closed"
     \/ hf.state = "readable" /\ hf.want /\ ~Pulling(hf)

\* C35: what the passthrough relay has emitted once it has settled depends on
\* the upstream bytes alone, not on their split into reads: its content
\* frames are, in order, those of the non-empty content fields of the
\* upstream events.
C35_SplitIndependent ==
  Settled => ContentFrames(hf.out) = ContentsOf(EventsOf(hf.body))

\* The part of C35 that holds: a relay that closed the stream emitted the
\* content frames of the body, and at every moment the frames emitted are the
\* first of them.
C35_CompletedMatchesBody ==
  Relaying =>
    /\ IsPrefix(ContentFrames(hf.out), ContentsOf(EventsOf(hf.body)))
    /\ Completed => ContentFrames(hf.out) = ContentsOf(EventsOf(hf.body))

\* One content event whose text arrives in two reads before its blank line:
\* the relay has settled without the frame that the same bytes read at once
\* produce.
C35_FrameLostBySplit ==
  /\ Settled
  /\ hf.body = <<"a", "b", "N", "N">>
  /\ hf.reads = 2
  /\ hf.out = <<>>

\* The same body read at once: frame and marker are emitted.
C35_FrameOfWholeRead ==
  /\ Settled
  /\ hf.body = <<"a", "b", "N", "N">>
  /\ hf.out = <<Content(<<"a", "b">>), DoneFrame>>

\* ---------------------------------------------------------------- C36 ----
\* C36: once the consumer has cancelled the synthesized-chunk stream, no timer
\* of the relay is pending and controller.enqueue is called for no further
\* content frame or completion marker.
C36_CancelStopsSynthesis ==
  sse.state = "cancelled" =>
    /\ ~sse.timer
    /\ sse.enqueues = sse.enqueuesAtCancel

\* The timer outlived the cancellation and its callback called enqueue on the
\* cancelled stream, which threw.
C36_EnqueueAfterCancel ==
  /\ sse.state = "cancelled"
  /\ sse.cancelThrew
  /\ ~sse.timer
  /\ sse.enqueues = sse.enqueuesAtCancel + 1
  /\ sse.threw = 1

\* What does hold: the cancelled stream receives no frame, and the timer runs
\* once more at most.
C36_NoFrameAfterCancel ==
  sse.state = "cancelled" =>
    /\ Len(sse.out) = sse.enqueuesAtCancel
    /\ sse.enqueues <= sse.enqueuesAtCancel + 1

\* ---------------------------------------------------------------- C37 ----
\* /refresh is answering a cookie that holds a refresh token signed with the
\* refresh secret, unexpired, of a stored user.
RefreshOfValidToken ==
  /\ resp.route = "refresh"
  /\ req.cookie.typ = "refresh"
  /\ req.cookie.key = RouterRefreshSecret
  /\ now \div 1000 < req.cookie.exp
  /\ req.cookie.sub \in Ids

\* /me is answering a bearer token signed with the access secret, unexpired,
\* of a stored user.
MeOfValidToken ==
  /\ resp.route = "me"
  /\ req.bearer \in issued
  /\ req.bearer.key = GuardAccessSecret
  /\ now \div 1000 < req.bearer.exp
  /\ req.bearer.sub \in Ids

\* C37: a refresh token that is validly signed, unexpired and typed refresh,
\* of an existing user, is accepted by /refresh (200, new access token, new
\* cookie) whether or not a logout was sent with it and whether or not it was
\* exchanged before; likewise an unexpired access token is accepted by /me
\* after any logout and exchange.
C37_TokensSurviveLogoutAndRotation ==
  /\ RefreshOfValidToken =>
       /\ resp.status = 200
       /\ resp.accessToken # NoToken
       /\ resp.cookieOp = "set"
  /\ MeOfValidToken => resp.status = 200

\* /refresh accepted a token that a logout had been sent with and that had
\* been exchanged before, for a newer token.
C37_Witness ==
  /\ RefreshOfValidToken
  /\ pre.loggedOut
  /\ pre.rotated
  /\ resp.status = 200
  /\ resp.cookieVal # req.cookie

\* ---------------------------------------------------------------- C38 ----
\* No submit of the interests page is under way.
PageAtRest == page.pc = "idle" /\ page.submits > 0

C38_RefreshRejected ==
  /\ PageAtRest
  /\ page.refreshes = 1
  /\ page.refresh = 0
  /\ page.error = "Failed to fetch"
  /\ ~page.loading

\* ---------------------------------------------------------------- C39 ----
\* The chats router handled a request that requireAuth let through.
ChatsAuthenticated == chats.q.op # "" /\ chats.r.status # 401

\* The request names a chat of the collection that another user owns.
NamesAnothersChat ==
  /\ ChatsAuthenticated
  /\ chats.q.op \in {"get", "update", "delete"}
  /\ \E c \in chats.before : c.id = chats.q.id /\ c.userId # chats.q.user

\* The answer carries chats of the caller only, and the collection differs
\* from the one before the request in chats of the caller only.
OnlyCallersChats ==
  /\ chats.q.user \in 1..2
  /\ \A c \in chats.r.chats : c.userId = chats.q.user
  /\ \A c \in chats.before \ chats.store : c.userId = chats.q.user
  /\ \A c \in chats.store \ chats.before : c.userId = chats.q.user

\* The body of the request fails the validators of POST / and PUT /:id.
BodyRefused == ~ValidBody(chats.q.title, chats.q.messages)

C39_CreateStoresCaller ==
  /\ chats.q.op = "create"
  /\ chats.r.status = 201
  /\ chats.q.user = 2
  /\ \E c \in chats.before : c.userId = 1
  /\ \E c \in chats.store \ chats.before : c.userId = 2

====
